---- MODULE Spec2Model ----
(***************************************************************************)
(* A model of the burn-in test execution engine: the suite aggregator      *)
(* (TestSuite::finalize), the scheduler (BurnInRunner::execute_sequential  *)
(* and execute_parallel) and the score computation of the five units.      *)
(*                                                                         *)
(* Three specifications share the variables:                               *)
(*   SpecSuite  a caller that builds a TestSuite through its public        *)
(*              fields and calls finalize;                                 *)
(*   Spec       one run of a BurnInRunner strategy;                        *)
(*   SpecScore  the score/issue computation at the end of each unit's      *)
(*              execute, applied to drawn final metric values.             *)
(***************************************************************************)
EXTENDS Integers, Sequences, FiniteSets, TLC

\* ------------------------------------------------------------------ bounds
\* longest list of registered units / of results pushed by a caller
MaxUnits == 3
MaxResults == 3
\* how often a caller calls finalize on one suite
MaxFinalize == 2
\* longest list of registered units in the runs that vary the whole config
MaxTopUnits == 2
\* most worker threads a harness spawns
MaxThreads == 2
\* most updates of the metric values during one execute
MaxWrites == 2
\* the longest buffer of the memory unit's multi-threaded stage
MaxSize == 5

\* ------------------------------------------------------- fixed-width integers
\* A wide value is a pair <<hi, lo>> standing for hi * 2^16 + lo, with
\* 0 <= lo < 2^16, so that the casts and the wrapping of the source can be
\* computed exactly on values beyond 2^31. A u32 has hi < 2^16.
U32Bits == 32
LimbBits == U32Bits \div 2
Base == 2^LimbBits
U8Mod == 2^8

WZero == <<0, 0>>

\* a natural below 2^31 as a wide value
Wide(n) == <<n \div Base, n % Base>>

\* a + b
WAdd(a, b) ==
    LET lo == a[2] + b[2]
    IN  <<a[1] + b[1] + (lo \div Base), lo % Base>>

\* a * k, k an 8-bit value
WMulSmall(a, k) ==
    LET lo == a[2] * k
    IN  <<a[1] * k + (lo \div Base), lo % Base>>

WLeq(a, b) == a[1] < b[1] \/ (a[1] = b[1] /\ a[2] <= b[2])
WLess(a, b) == a[1] < b[1] \/ (a[1] = b[1] /\ a[2] < b[2])

\* a - b for a >= b
WSub(a, b) ==
    IF a[2] >= b[2] THEN <<a[1] - b[1], a[2] - b[2]>>
    ELSE <<a[1] - b[1] - 1, a[2] + Base - b[2]>>

\* 2a + bit
WShl(a, bit) ==
    LET lo == 2 * a[2] + bit
    IN  <<2 * a[1] + (lo \div Base), lo % Base>>

\* bit k of a u32
WBit(a, k) ==
    IF k >= LimbBits THEN (a[1] \div 2^(k - LimbBits)) % 2
    ELSE (a[2] \div 2^k) % 2

RECURSIVE DivStep(_, _, _, _, _)
DivStep(n, d, k, q, r) ==
    IF k < 0 THEN q
    ELSE LET r2 == WShl(r, WBit(n, k))
         IN  IF WLeq(d, r2)
             THEN DivStep(n, d, k-1, WShl(q, 1), WSub(r2, d))
             ELSE DivStep(n, d, k-1, WShl(q, 0), r2)

\* `n / d` on u32 operands, d # 0
U32Div(n, d) == DivStep(n, d, U32Bits - 1, WZero, WZero)

\* `x as u32`: the low 32 bits
AsU32(a) == <<a[1] % Base, a[2]>>

\* `x as u8` of a wide value: the low 8 bits
WAsU8(a) == a[2] % U8Mod

\* ------------------------------------------------------------- data model
TestStatus == {"Pending", "Running", "Completed", "Failed", "Skipped", "Partial"}
IssueSeverity == {"Low", "Medium", "High", "Critical"}

TestIssue(component, severity, message, action) ==
    [component |-> component, severity |-> severity,
     message |-> message, action |-> action]

TestResult(name, status, score, duration, issues) ==
    [name |-> name, status |-> status, score |-> score,
     duration |-> duration, issues |-> issues]

VARIABLES
    suite,            \* TestSuite: results, overall_score, overall_status
    overflow_checks,  \* the build's overflow-checks setting (debug / release)
    panicked,         \* the call under way has panicked
    fin_calls,        \* completed finalize calls on the suite
    clean_fins,       \* completed finalize calls since results last changed
    \* BurnInRunner and one run of a strategy
    tests,            \* runner.tests: the units the runner holds, in order
    interrupted,      \* runner.interrupted
    strategy,         \* the strategy called: "none", "sequential", "parallel"
    pc,               \* where the strategy's own thread is
    idx,              \* position of the sequential loop in its list
    cpu_memory_tests, \* execute_parallel's locals
    other_tests,
    stage,            \* per unit: "idle", "declined", "exec", "post", "done"
    produced,         \* per unit: the TestResult recorded for it, or NoResult
    returned,         \* what the strategy returned: "none", "Ok"
    \* history of the run
    registered,       \* the units registered when the run began
    checked,          \* per unit: what its interrupt check found
    execs,            \* per unit: calls of execute
    cleanups,         \* per unit: calls of cleanup
    ran_in,           \* per unit: the phase that called its execute
    outcome,          \* per unit: what its execute returned
    result_units,     \* the unit behind each entry of suite.results
    warnings,         \* calls of reporter.report_warning
    cleanup_errs,     \* calls of cleanup that returned Err
    reports,          \* calls of the reporter, by kind and unit
    int_when,         \* when the flag became set
    \* one call of a unit's execute
    metrics,          \* the final metric values the unit's measurements gave
    exec_result,      \* what execute returned, or NoOutcome
    \* the top of a run
    config,           \* runner.config: cpu_enabled, memory_enabled
    handler,          \* the Ctrl-C handler: "none", "installed", "failed"
    exit_code,        \* the exit code of a process that ran main, or None
    \* the threads of one call of a harness-based unit's execute
    harness,          \* the unit whose execute is under way, or "none"
    thread_count,     \* the number of worker threads it spawns
    main_at,          \* where execute's own thread is
    joined,           \* the handles execute has joined, in order
    running,          \* the stop flag shared with the spawned threads
    thread,           \* per thread id: where the thread is
    temp,             \* the temperature the monitor thread last read
    owner,            \* per mutex: the thread holding its guard, or NoOwner
    writes,           \* updates made to the metric values so far
    final_metrics,    \* the updates seen by execute's read of the final values
    live_at_read,     \* the threads still alive at that read
    \* the storage unit and the file system
    files,            \* the files and directories the unit's calls have left
    env,              \* config.storage_test_paths and what the file system allows
    last_call,        \* the latest call of a unit's execute or cleanup
    prev_call,        \* the call before it
    \* the command line and the duration of the run
    duration_str,     \* the duration given as text, as a sequence of characters
    parse_result,     \* what TestConfig::parse_duration returned for it, or None
    command,          \* the subcommand main has matched, or "none"
    config_duration,  \* config.duration
    \* the work and the clock of one harness
    size,             \* the length of the memory unit's shared buffer
    now,              \* the time since execute began, in milliseconds
    started,          \* per worker: its `start` Instant, or None
    local_instructions,   \* per worker: its local counter
    instructions_per_sec, \* the shared counter behind its mutex
    counted,          \* per worker: all it has counted so far
    last_flush,       \* per worker: when it last flushed, or None
    min_gap,          \* the least time between two flushes of one worker, or None
    cleared_at        \* when the timer thread cleared running, or None

suite_vars == <<suite, overflow_checks, panicked, fin_calls, clean_fins>>
run_vars == <<tests, interrupted, strategy, pc, idx, cpu_memory_tests, other_tests,
              stage, produced, returned>>
hist_vars == <<registered, checked, execs, cleanups, ran_in, outcome,
               result_units, warnings, cleanup_errs, reports, int_when>>
score_vars == <<metrics, exec_result>>
top_vars == <<config, handler, exit_code>>
harness_vars == <<harness, thread_count, main_at, joined, running, thread, temp, owner,
                  writes, final_metrics, live_at_read>>
fs_vars == <<files, env, last_call, prev_call>>
cfg_vars == <<duration_str, parse_result, command, config_duration>>
work_vars == <<size, now, started, local_instructions, instructions_per_sec, counted,
               last_flush, min_gap, cleared_at>>
vars == <<suite_vars, run_vars, hist_vars, score_vars, top_vars, harness_vars, work_vars, cfg_vars, fs_vars>>

\* ---------------------------------------------------------------- TestSuite
TestSuite_new ==
    [results |-> <<>>, overall_score |-> 0, overall_status |-> "Pending"]

RECURSIVE total_duration_secs(_)
total_duration_secs(rs) ==
    IF rs = <<>> THEN WZero
    ELSE WAdd(Wide(Head(rs).duration), total_duration_secs(Tail(rs)))

RECURSIVE score_sum(_)
score_sum(rs) == IF rs = <<>> THEN 0 ELSE Head(rs).score + score_sum(Tail(rs))

\* `(r.score as u64 * r.duration.as_secs()) as u32`
weighted_term(r) == AsU32(WMulSmall(Wide(r.duration), r.score))

\* `.sum::<u32>()`: [overflow |-> some addition left 32 bits, value |-> wrapped sum]
RECURSIVE weighted_sum(_)
weighted_sum(rs) ==
    IF rs = <<>> THEN [overflow |-> FALSE, value |-> WZero]
    ELSE LET rest == weighted_sum(Tail(rs))
             full == WAdd(weighted_term(Head(rs)), rest.value)
         IN  [overflow |-> rest.overflow \/ full # AsU32(full),
              value |-> AsU32(full)]

any_status(rs, st) == \E i \in 1..Len(rs) : rs[i].status = st

overall_status_partial_first(rs) ==
    IF any_status(rs, "Partial") THEN "Partial"
    ELSE IF any_status(rs, "Failed") THEN "Failed"
    ELSE "Completed"

\* the status rule at the end of finalize
overall_status_of(rs) ==
    IF any_status(rs, "Failed") THEN "Failed"
    ELSE IF any_status(rs, "Partial") THEN "Partial"
    ELSE "Completed"

finalize_accumulating(s) ==
    IF s.results = <<>>
    THEN [panic |-> FALSE,
          suite |-> [s EXCEPT !.overall_score = 0, !.overall_status = "Failed"]]
    ELSE [panic |-> FALSE,
          suite |-> [s EXCEPT
              !.overall_score = (s.overall_score + score_sum(s.results))
                                    \div (Len(s.results) + 1),
              !.overall_status = overall_status_of(s.results)]]

finalize_without_empty_case(s) ==
    [panic |-> FALSE,
     suite |-> [s EXCEPT
         !.overall_score = IF s.results = <<>> THEN 0
                           ELSE score_sum(s.results) \div Len(s.results),
         !.overall_status = overall_status_of(s.results)]]

\* TestSuite::finalize: [panic |-> the call panicked, suite |-> the suite after it]
finalize(s) ==
    IF s.results = <<>>
    THEN [panic |-> FALSE,
          suite |-> [s EXCEPT !.overall_score = 0, !.overall_status = "Failed"]]
    ELSE LET total == total_duration_secs(s.results)
             wsum  == weighted_sum(s.results)
             done(score) ==
                 [panic |-> FALSE,
                  suite |-> [s EXCEPT !.overall_score = score,
                                      !.overall_status = overall_status_of(s.results)]]
         IN  IF total = WZero
             THEN done((score_sum(s.results) \div Len(s.results)) % U8Mod)
             ELSE IF (wsum.overflow /\ overflow_checks) \/ AsU32(total) = WZero
             THEN [panic |-> TRUE, suite |-> s]
             ELSE done(WAsU8(U32Div(wsum.value, AsU32(total))))

\* ------------------------------------------------------------ the units
\* The units main registers, in its order; a unit is known by its place here.
\* A name is kept as its words, so that `contains` is a test on the text.
UnitNames ==
    << <<"cpu", "_", "stress">>,
       <<"memory", "_", "validation">>,
       <<"storage", "_", "io">>,
       <<"network">>,
       <<"thermal", "_", "monitor">> >>

Units == 1..Len(UnitNames)

name(u) == UnitNames[u]

\* `name.contains(word)`
contains(nm, word) == \E i \in 1..Len(nm) : nm[i] = word

\* the lists main can register: the enabled units, in main's order
IsAscending(l) == \A i \in 1..(Len(l) - 1) : l[i] < l[i+1]
RegisteredLists ==
    UNION { {l \in [1..n -> Units] : IsAscending(l)} : n \in 0..MaxUnits }

\* BurnInError and its Display
ErrorPrefix ==
    [HardwareFailure |-> "Hardware failure: ",
     InsufficientResources |-> "Insufficient resources: ",
     TestExecutionError |-> "Test execution error: "]

BurnInError(kind, text) == [kind |-> kind, text |-> text]

Display(e) == <<ErrorPrefix[e.kind], e.text>>

Absent(x) == <<>>

Some(x) == <<x>>
None == <<>>

NoResult == [name |-> <<>>]

\* What a unit's execute may return, as the scheduler sees it through the
\* BurnInTest trait: Ok with a result that carries the unit's name, or Err.
CriticalIssue(u) ==
    TestIssue(name(u), "Critical", <<"threshold exceeded">>, Some("Check hardware"))

OkResults(u) ==
    { TestResult(name(u), "Completed", 100, 10, <<>>),
      TestResult(name(u), "Failed", 40, 20, <<CriticalIssue(u)>>) }

Errors ==
    { BurnInError("InsufficientResources", "No suitable storage paths found for testing") }

\* whole seconds `start_time.elapsed()` may show when execute fails
ElapsedOnError == {0}

ExecuteOutcomes(u) ==
    { [ok |-> TRUE, result |-> r] : r \in OkResults(u) }
        \cup { [ok |-> FALSE, error |-> e, elapsed |-> d] :
                   e \in Errors, d \in ElapsedOnError }

NoOutcome == [none |-> TRUE]
NoMetrics == [unit |-> 0]

\* ------------------------------------------------------------ BurnInRunner
failure_result_lenient(nm, e, elapsed) ==
    TestResult(nm, "Partial", 0, elapsed,
               <<TestIssue(nm, "High", <<"Test failed: ">> \o Display(e),
                           Some("Check system logs for details"))>>)

\* The result the scheduler makes of Err(e); the same text stands in the
\* sequential loop, in the parallel group and in the loop over the other units.
failure_result(nm, e, elapsed) ==
    TestResult(nm, "Failed", 0, elapsed,
               <<TestIssue(nm, "Critical", <<"Test failed: ">> \o Display(e),
                           Some("Check system logs for details"))>>)

\* `match test.execute(&config) { Ok(result) => result, Err(e) => ... }`
result_of(u, out) ==
    IF out.ok THEN out.result ELSE failure_result(name(u), out.error, out.elapsed)

never_interrupted == FALSE

\* BurnInRunner::is_interrupted
is_interrupted == interrupted

in_cpu_group_only(u) == contains(name(u), "cpu")

\* `name.contains("cpu") || name.contains("memory")`
in_cpu_memory_group(u) == contains(name(u), "cpu") \/ contains(name(u), "memory")

\* TestConfig, as far as the runner reads it; the runner is given its
\* config and its units separately
Configs == [cpu_enabled : BOOLEAN, memory_enabled : BOOLEAN]
\* one config for each strategy
SchedulerConfigs == {c \in Configs : c.cpu_enabled = c.memory_enabled}
TestConfig_default == [cpu_enabled |-> TRUE, memory_enabled |-> TRUE]

\* ids of the threads one execute spawns: the timer, then the workers
\* 1..thread_count (the thermal unit's one monitor thread is thread 1)
timer_thread == 0
monitor_thread == 1
ThreadIds == 0..MaxThreads
\* the thread that runs execute and joins the others
main_thread == MaxThreads + 1
NoOwner == 0 - 1

\* the mutexes of the three harnesses; "memory" guards the buffer under
\* test, "running" the flag that ends the loops, every other one a metric
MetricLocks ==
    {"utilization", "throttling_events", "instructions_per_sec", "error_count",
     "max_temp", "min_temp", "avg_temp", "temp_readings", "warning_events",
     "critical_events"}
Locks == MetricLocks \cup {"memory", "running"}

\* a call record before any call was made
NoCall == [op |-> "none", unit |-> 0, result |-> "none", before |-> {}]

\* the default config on an ordinary file system, no call made yet
Env_default == [custom |-> "none", detect |-> "dir", removable |-> TRUE]

\* TestConfig::default()'s duration, and no command line read yet
Duration_default == [secs |-> 2 * 60 * 60, millis |-> 0]

\* no harness has started its clock or counted anything
NoWork ==
    [started |-> [t \in ThreadIds |-> None], zero |-> [t \in ThreadIds |-> 0]]

ClockIdle ==
    /\ now = 0
    /\ started = NoWork.started
    /\ local_instructions = NoWork.zero
    /\ instructions_per_sec = 0
    /\ counted = NoWork.zero
    /\ last_flush = NoWork.started
    /\ min_gap = None
    /\ cleared_at = None

WorkIdle == size = 0 /\ ClockIdle

ConfigIdle ==
    /\ duration_str = <<>>
    /\ parse_result = None
    /\ command = "none"
    /\ config_duration = Duration_default

FsIdle ==
    /\ files = {}
    /\ env = Env_default
    /\ last_call = NoCall
    /\ prev_call = NoCall

\* no execute of a harness-based unit is under way
HarnessIdle ==
    /\ harness = "none"
    /\ thread_count = 0
    /\ main_at = "idle"
    /\ joined = <<>>
    /\ running = FALSE
    /\ thread = [t \in ThreadIds |-> "absent"]
    /\ temp = 0
    /\ owner = [l \in Locks |-> NoOwner]
    /\ writes = 0
    /\ final_metrics = None
    /\ live_at_read = {}

RECURSIVE MapResults(_)
MapResults(l) == IF l = <<>> THEN <<>> ELSE <<produced[Head(l)]>> \o MapResults(Tail(l))

\* no call of the reporter yet
NoReports ==
    [start |-> 0, suite |-> 0,
     test_start |-> [u \in Units |-> 0], test_result |-> [u \in Units |-> 0]]

RunIdle ==
    /\ interrupted = FALSE
    /\ strategy = "none"
    /\ pc = "idle"
    /\ idx = 0
    /\ cpu_memory_tests = <<>>
    /\ other_tests = <<>>
    /\ stage = [u \in Units |-> "idle"]
    /\ produced = [u \in Units |-> NoResult]
    /\ returned = "none"
    /\ checked = [u \in Units |-> "no"]
    /\ execs = [u \in Units |-> 0]
    /\ cleanups = [u \in Units |-> 0]
    /\ ran_in = [u \in Units |-> "none"]
    /\ outcome = [u \in Units |-> NoOutcome]
    /\ result_units = <<>>
    /\ warnings = 0
    /\ cleanup_errs = 0
    /\ reports = NoReports
    /\ int_when = <<"never">>
    /\ exec_result = NoOutcome
    /\ handler = "none"
    /\ exit_code = None
    /\ HarnessIdle
    /\ FsIdle
    /\ ConfigIdle
    /\ WorkIdle

\* BurnInRunner::new, in a process that has the handler installed
RunInit ==
    /\ registered \in RegisteredLists
    /\ tests = registered
    /\ RunIdle
    /\ metrics = NoMetrics
    /\ config \in SchedulerConfigs
    /\ suite = TestSuite_new
    /\ overflow_checks = FALSE
    /\ panicked = FALSE
    /\ fin_calls = 0
    /\ clean_fins = 0

\* BurnInRunner::new with any config, on the shorter lists of units
TopInit ==
    /\ registered \in {l \in RegisteredLists : Len(l) <= MaxTopUnits}
    /\ tests = registered
    /\ RunIdle
    /\ metrics = NoMetrics
    /\ config \in Configs
    /\ suite = TestSuite_new
    /\ overflow_checks = FALSE
    /\ panicked = FALSE
    /\ fin_calls = 0
    /\ clean_fins = 0

\* what a run returns when the handler cannot be installed
Err_UnexpectedError == "Err(UnexpectedError)"

use_parallel_if_either == config.cpu_enabled \/ config.memory_enabled

\* `self.config.cpu_enabled && self.config.memory_enabled`
use_parallel == config.cpu_enabled /\ config.memory_enabled

Enter_ignoring_failure(installed) ==
    /\ pc = "idle"
    /\ handler' = IF installed THEN "installed" ELSE "failed"
    /\ pc' = "entered"
    /\ UNCHANGED <<work_vars, cfg_vars, fs_vars, harness_vars, score_vars, suite_vars, config, exit_code, tests, interrupted, strategy,
                   idx, cpu_memory_tests, other_tests, stage, produced, returned, hist_vars>>

\* `self.setup_interrupt_handler()?` at the head of a run: ctrlc::set_handler
\* either installs the handler or fails, and then the run returns the error.
Enter(installed) ==
    /\ pc = "idle"
    /\ handler' = IF installed THEN "installed" ELSE "failed"
    /\ pc' = IF installed THEN "entered" ELSE "done"
    /\ returned' = IF installed THEN returned ELSE Err_UnexpectedError
    /\ UNCHANGED <<work_vars, cfg_vars, fs_vars, harness_vars, score_vars, suite_vars, config, exit_code, tests, interrupted, strategy,
                   idx, cpu_memory_tests, other_tests, stage, produced, hist_vars>>

\* The two entry functions differ in execute_all's report_info calls only,
\* which leave no trace in the state: a run entered by either goes the same way.
execute_with_recovery(installed) == Enter(installed)

execute_all(installed) == Enter(installed)

\* main's match on what the run returned
main_exit ==
    /\ pc = "done"
    /\ exit_code = None
    /\ exit_code' = Some(IF returned # "Ok" THEN 2
                         ELSE IF suite.overall_status = "Failed" THEN 1 ELSE 0)
    /\ UNCHANGED <<work_vars, cfg_vars, fs_vars, harness_vars, score_vars, suite_vars, run_vars, hist_vars, config, handler>>

\* main returns Err before it has run its runner: the logger cannot be set
\* up, or the duration of a custom run does not parse
main_fails_early ==
    /\ pc = "idle"
    /\ exit_code = None
    /\ exit_code' = Some(1)
    /\ pc' = "exited"
    /\ UNCHANGED <<work_vars, cfg_vars, fs_vars, harness_vars, score_vars, suite_vars, tests, interrupted, strategy, idx,
                   cpu_memory_tests, other_tests, stage, produced, returned, hist_vars,
                   config, handler>>

\* The handler set up by setup_interrupt_handler runs: the flag is set.
Interrupt ==
    /\ handler = "installed"
    /\ pc \notin {"done", "exited"}
    /\ ~interrupted
    /\ interrupted' = TRUE
    /\ int_when' = IF pc \in {"seq_loop", "other_loop"} THEN <<"boundary", idx - 1>>
                   ELSE <<"within">>
    /\ UNCHANGED <<work_vars, cfg_vars, fs_vars, harness_vars, score_vars, top_vars, suite_vars, tests, strategy, pc, idx, cpu_memory_tests, other_tests,
                   stage, produced, returned, registered, checked, execs, cleanups,
                   ran_in, outcome, result_units, warnings, cleanup_errs, reports>>

Decline_then_execute(u) ==
    /\ checked' = [checked EXCEPT ![u] = "set"]
    /\ execs' = [execs EXCEPT ![u] = @ + 1]
    /\ UNCHANGED <<ran_in, reports>>

\* the interrupt check of unit u finds the flag set: the unit is not started
Decline(u) ==
    /\ checked' = [checked EXCEPT ![u] = "set"]
    /\ UNCHANGED <<execs, ran_in, reports>>

Launch_unreported(u, phase) ==
    /\ checked' = [checked EXCEPT ![u] = "clear"]
    /\ execs' = [execs EXCEPT ![u] = @ + 1]
    /\ ran_in' = [ran_in EXCEPT ![u] = phase]
    /\ UNCHANGED reports

\* report_test_start and the call of execute
Launch(u, phase) ==
    /\ checked' = [checked EXCEPT ![u] = "clear"]
    /\ execs' = [execs EXCEPT ![u] = @ + 1]
    /\ ran_in' = [ran_in EXCEPT ![u] = phase]
    /\ reports' = [reports EXCEPT !.test_start[u] = @ + 1]

CallCleanupUnlessFailed(u, cleanup_ok) ==
    /\ cleanups' = [cleanups EXCEPT ![u] = IF outcome[u].ok THEN @ + 1 ELSE @]
    /\ warnings' = IF cleanup_ok \/ ~outcome[u].ok THEN warnings ELSE warnings + 1
    /\ cleanup_errs' = IF cleanup_ok \/ ~outcome[u].ok THEN cleanup_errs ELSE cleanup_errs + 1

CallCleanupSilently(u, cleanup_ok) ==
    /\ cleanups' = [cleanups EXCEPT ![u] = @ + 1]
    /\ warnings' = warnings
    /\ cleanup_errs' = IF cleanup_ok THEN cleanup_errs ELSE cleanup_errs + 1

\* test.cleanup(), and report_warning when it returns Err
CallCleanup(u, cleanup_ok) ==
    /\ cleanups' = [cleanups EXCEPT ![u] = @ + 1]
    /\ warnings' = IF cleanup_ok THEN warnings ELSE warnings + 1
    /\ cleanup_errs' = IF cleanup_ok THEN cleanup_errs ELSE cleanup_errs + 1

\* execute_sequential up to its loop
StartSequential ==
    /\ pc = "entered"
    /\ ~use_parallel
    /\ strategy' = "sequential"
    /\ suite' = TestSuite_new
    /\ idx' = 1
    /\ pc' = "seq_loop"
    /\ UNCHANGED <<work_vars, cfg_vars, fs_vars, harness_vars, score_vars, top_vars, overflow_checks, panicked, fin_calls, clean_fins, tests, interrupted,
                   cpu_memory_tests, other_tests, stage, produced, returned, registered, checked,
                   execs, cleanups, ran_in, outcome, result_units, warnings,
                   cleanup_errs, int_when>>
    /\ reports' = [reports EXCEPT !.start = @ + 1]

\* the head of one iteration: the interrupt check, then the call of execute
SeqNext ==
    /\ pc = "seq_loop"
    /\ IF idx > Len(tests)
       THEN /\ pc' = "finalize"
            /\ UNCHANGED <<stage, checked, execs, ran_in, reports>>
       ELSE IF is_interrupted
       THEN /\ pc' = "finalize"
            /\ Decline(tests[idx])
            /\ stage' = [stage EXCEPT ![tests[idx]] = "declined"]
       ELSE /\ pc' = "seq_exec"
            /\ Launch(tests[idx], "sequential")
            /\ stage' = [stage EXCEPT ![tests[idx]] = "exec"]
    /\ UNCHANGED <<work_vars, cfg_vars, fs_vars, harness_vars, score_vars, top_vars, suite_vars, tests, interrupted, strategy, idx, cpu_memory_tests,
                   other_tests, produced, returned, registered, cleanups, outcome,
                   result_units, warnings, cleanup_errs, int_when>>

\* execute returns: the result is made, reported and pushed
SeqExecuteReturns(out) ==
    /\ pc = "seq_exec"
    /\ LET u == tests[idx]
           r == result_of(u, out)
       IN  /\ outcome' = [outcome EXCEPT ![u] = out]
           /\ produced' = [produced EXCEPT ![u] = r]
           /\ suite' = [suite EXCEPT !.results = Append(@, r)]
           /\ result_units' = Append(result_units, u)
           /\ stage' = [stage EXCEPT ![u] = "post"]
    /\ pc' = "seq_cleanup"
    /\ UNCHANGED <<work_vars, cfg_vars, fs_vars, harness_vars, score_vars, top_vars, overflow_checks, panicked, fin_calls, clean_fins, tests, interrupted,
                   strategy, idx, cpu_memory_tests, other_tests, returned, registered,
                   checked, execs, cleanups, ran_in, warnings, cleanup_errs, int_when>>
    /\ reports' = [reports EXCEPT !.test_result[tests[idx]] = @ + 1]

\* a loop that gives up when a cleanup returns Err
SeqCleanup_stopping_on_err(cleanup_ok) ==
    /\ pc = "seq_cleanup"
    /\ CallCleanup(tests[idx], cleanup_ok)
    /\ stage' = [stage EXCEPT ![tests[idx]] = "done"]
    /\ idx' = idx + 1
    /\ pc' = IF cleanup_ok THEN "seq_loop" ELSE "finalize"
    /\ UNCHANGED <<work_vars, cfg_vars, fs_vars, harness_vars, score_vars, top_vars, suite_vars, tests, interrupted, strategy, cpu_memory_tests,
                   other_tests, produced, returned, registered, checked, execs,
                   ran_in, outcome, result_units, reports, int_when>>

SeqCleanup(cleanup_ok) ==
    /\ pc = "seq_cleanup"
    /\ CallCleanup(tests[idx], cleanup_ok)
    /\ stage' = [stage EXCEPT ![tests[idx]] = "done"]
    /\ idx' = idx + 1
    /\ pc' = "seq_loop"
    /\ UNCHANGED <<work_vars, cfg_vars, fs_vars, harness_vars, score_vars, top_vars, suite_vars, tests, interrupted, strategy, cpu_memory_tests,
                   other_tests, produced, returned, registered, checked, execs,
                   ran_in, outcome, result_units, reports, int_when>>

\* execute_parallel up to the parallel map: the units are drained from the
\* runner and split by name
StartParallel ==
    /\ pc = "entered"
    /\ use_parallel
    /\ strategy' = "parallel"
    /\ suite' = TestSuite_new
    /\ cpu_memory_tests' = SelectSeq(tests, in_cpu_memory_group)
    /\ other_tests' = SelectSeq(tests, LAMBDA u : ~in_cpu_memory_group(u))
    /\ tests' = <<>>
    /\ idx' = 1
    /\ pc' = IF cpu_memory_tests' # <<>> THEN "par_group" ELSE "other_loop"
    /\ UNCHANGED <<work_vars, cfg_vars, fs_vars, harness_vars, score_vars, top_vars, overflow_checks, panicked, fin_calls, clean_fins, interrupted,
                   stage, produced, returned, registered, checked,
                   execs, cleanups, ran_in, outcome, result_units, warnings,
                   cleanup_errs, int_when>>
    /\ reports' = [reports EXCEPT !.start = @ + 1]

InGroupList(u) == \E i \in 1..Len(cpu_memory_tests) : cpu_memory_tests[i] = u

\* one task of the parallel map begins: its interrupt check, then execute
TaskStart(u) ==
    /\ pc = "par_group"
    /\ InGroupList(u)
    /\ stage[u] = "idle"
    /\ IF interrupted
       THEN /\ Decline(u)
            /\ stage' = [stage EXCEPT ![u] = "declined"]
       ELSE /\ Launch(u, "group")
            /\ stage' = [stage EXCEPT ![u] = "exec"]
    /\ UNCHANGED <<work_vars, cfg_vars, fs_vars, harness_vars, score_vars, top_vars, suite_vars, tests, interrupted, strategy, pc, idx, cpu_memory_tests,
                   other_tests, produced, returned, registered, cleanups, outcome,
                   result_units, warnings, cleanup_errs, int_when>>

\* the task's execute returns: the result is made and reported
TaskExecuteReturns(u, out) ==
    /\ pc = "par_group"
    /\ InGroupList(u)
    /\ stage[u] = "exec"
    /\ outcome' = [outcome EXCEPT ![u] = out]
    /\ produced' = [produced EXCEPT ![u] = result_of(u, out)]
    /\ stage' = [stage EXCEPT ![u] = "post"]
    /\ UNCHANGED <<work_vars, cfg_vars, fs_vars, harness_vars, score_vars, top_vars, suite_vars, tests, interrupted, strategy, pc, idx, cpu_memory_tests,
                   other_tests, returned, registered, checked, execs, cleanups, ran_in,
                   result_units, warnings, cleanup_errs, int_when>>
    /\ reports' = [reports EXCEPT !.test_result[u] = @ + 1]

\* the task cleans up and returns Some(result)
TaskCleanup(u, cleanup_ok) ==
    /\ pc = "par_group"
    /\ InGroupList(u)
    /\ stage[u] = "post"
    /\ CallCleanup(u, cleanup_ok)
    /\ stage' = [stage EXCEPT ![u] = "done"]
    /\ UNCHANGED <<work_vars, cfg_vars, fs_vars, harness_vars, score_vars, top_vars, suite_vars, tests, interrupted, strategy, pc, idx, cpu_memory_tests,
                   other_tests, produced, returned, registered, checked, execs, ran_in,
                   outcome, result_units, reports, int_when>>

\* a map that hands over as soon as one task has returned
GroupJoin_without_waiting ==
    /\ pc = "par_group"
    /\ \E i \in 1..Len(cpu_memory_tests) : stage[cpu_memory_tests[i]] \in {"declined", "done"}
    /\ LET some == SelectSeq(cpu_memory_tests, LAMBDA u : stage[u] = "done")
       IN  /\ suite' = [suite EXCEPT !.results = @ \o MapResults(some)]
           /\ result_units' = result_units \o some
    /\ pc' = "other_loop"
    /\ UNCHANGED <<work_vars, cfg_vars, fs_vars, harness_vars, score_vars, top_vars, overflow_checks, panicked, fin_calls, clean_fins, tests, interrupted,
                   strategy, idx, cpu_memory_tests, other_tests, stage, produced,
                   returned, registered, checked, execs, cleanups, ran_in, outcome,
                   warnings, cleanup_errs, reports, int_when>>

\* every task has returned: filter_map and collect keep the Some results in
\* the order of the list, and the suite is extended with them
GroupJoin ==
    /\ pc = "par_group"
    /\ \A i \in 1..Len(cpu_memory_tests) : stage[cpu_memory_tests[i]] \in {"declined", "done"}
    /\ LET some == SelectSeq(cpu_memory_tests, LAMBDA u : stage[u] = "done")
       IN  /\ suite' = [suite EXCEPT !.results = @ \o MapResults(some)]
           /\ result_units' = result_units \o some
    /\ pc' = "other_loop"
    /\ UNCHANGED <<work_vars, cfg_vars, fs_vars, harness_vars, score_vars, top_vars, overflow_checks, panicked, fin_calls, clean_fins, tests, interrupted,
                   strategy, idx, cpu_memory_tests, other_tests, stage, produced,
                   returned, registered, checked, execs, cleanups, ran_in, outcome,
                   warnings, cleanup_errs, reports, int_when>>

\* the loop over the other units
OtherNext ==
    /\ pc = "other_loop"
    /\ IF idx > Len(other_tests)
       THEN /\ pc' = "finalize"
            /\ UNCHANGED <<stage, checked, execs, ran_in, reports>>
       ELSE IF is_interrupted
       THEN /\ pc' = "finalize"
            /\ Decline(other_tests[idx])
            /\ stage' = [stage EXCEPT ![other_tests[idx]] = "declined"]
       ELSE /\ pc' = "other_exec"
            /\ Launch(other_tests[idx], "other")
            /\ stage' = [stage EXCEPT ![other_tests[idx]] = "exec"]
    /\ UNCHANGED <<work_vars, cfg_vars, fs_vars, harness_vars, score_vars, top_vars, suite_vars, tests, interrupted, strategy, idx, cpu_memory_tests,
                   other_tests, produced, returned, registered, cleanups, outcome,
                   result_units, warnings, cleanup_errs, int_when>>

OtherExecuteReturns(out) ==
    /\ pc = "other_exec"
    /\ LET u == other_tests[idx]
           r == result_of(u, out)
       IN  /\ outcome' = [outcome EXCEPT ![u] = out]
           /\ produced' = [produced EXCEPT ![u] = r]
           /\ suite' = [suite EXCEPT !.results = Append(@, r)]
           /\ result_units' = Append(result_units, u)
           /\ stage' = [stage EXCEPT ![u] = "post"]
    /\ pc' = "other_cleanup"
    /\ UNCHANGED <<work_vars, cfg_vars, fs_vars, harness_vars, score_vars, top_vars, overflow_checks, panicked, fin_calls, clean_fins, tests, interrupted,
                   strategy, idx, cpu_memory_tests, other_tests, returned, registered,
                   checked, execs, cleanups, ran_in, warnings, cleanup_errs, int_when>>
    /\ reports' = [reports EXCEPT !.test_result[other_tests[idx]] = @ + 1]

OtherCleanup(cleanup_ok) ==
    /\ pc = "other_cleanup"
    /\ CallCleanup(other_tests[idx], cleanup_ok)
    /\ stage' = [stage EXCEPT ![other_tests[idx]] = "done"]
    /\ idx' = idx + 1
    /\ pc' = "other_loop"
    /\ UNCHANGED <<work_vars, cfg_vars, fs_vars, harness_vars, score_vars, top_vars, suite_vars, tests, interrupted, strategy, cpu_memory_tests,
                   other_tests, produced, returned, registered, checked, execs,
                   ran_in, outcome, result_units, reports, int_when>>

\* a run that goes on to its report without finalizing the suite
RunFinalize_skipped ==
    /\ pc = "finalize"
    /\ pc' = "report"
    /\ UNCHANGED <<work_vars, cfg_vars, fs_vars, harness_vars, score_vars, top_vars, suite_vars, tests, interrupted, strategy, idx,
                   cpu_memory_tests, other_tests, stage, produced, returned, hist_vars>>

\* suite.finalize()
RunFinalize ==
    /\ pc = "finalize"
    /\ \E f \in {finalize(suite)} :
           /\ suite' = f.suite
           /\ panicked' = f.panic
           /\ fin_calls' = IF f.panic THEN fin_calls ELSE fin_calls + 1
           /\ clean_fins' = IF f.panic THEN clean_fins ELSE clean_fins + 1
           /\ pc' = IF f.panic THEN "panic" ELSE "report"
    /\ UNCHANGED <<work_vars, cfg_vars, fs_vars, harness_vars, score_vars, top_vars, overflow_checks, tests, interrupted, strategy, idx, cpu_memory_tests,
                   other_tests, stage, produced, returned, hist_vars>>

\* report_suite_result(&suite) and the return of Ok(suite)
ReportSuite ==
    /\ pc = "report"
    /\ reports' = [reports EXCEPT !.suite = @ + 1]
    /\ returned' = "Ok"
    /\ pc' = "done"
    /\ UNCHANGED <<work_vars, cfg_vars, fs_vars, harness_vars, score_vars, top_vars, suite_vars, tests, interrupted, strategy, idx,
                   cpu_memory_tests, other_tests, stage, produced, registered, checked,
                   execs, cleanups, ran_in, outcome, result_units, warnings,
                   cleanup_errs, int_when>>

RunNext ==
    \/ \E installed \in BOOLEAN : execute_with_recovery(installed)
    \/ \E installed \in BOOLEAN : execute_all(installed)
    \/ main_exit
    \/ main_fails_early
    \/ Interrupt
    \/ StartSequential
    \/ SeqNext
    \/ \E u \in Units : \E out \in ExecuteOutcomes(u) :
           u = (IF pc = "seq_exec" THEN tests[idx] ELSE 0) /\ SeqExecuteReturns(out)
    \/ \E ok \in BOOLEAN : SeqCleanup(ok)
    \/ StartParallel
    \/ \E u \in Units : TaskStart(u)
    \/ \E u \in Units : \E out \in ExecuteOutcomes(u) : TaskExecuteReturns(u, out)
    \/ \E u \in Units : \E ok \in BOOLEAN : TaskCleanup(u, ok)
    \/ GroupJoin
    \/ OtherNext
    \/ \E u \in Units : \E out \in ExecuteOutcomes(u) :
           u = (IF pc = "other_exec" THEN other_tests[idx] ELSE 0) /\ OtherExecuteReturns(out)
    \/ \E ok \in BOOLEAN : OtherCleanup(ok)
    \/ RunFinalize
    \/ ReportSuite

Spec == RunInit /\ [][RunNext]_vars

SpecTop == TopInit /\ [][RunNext]_vars

\* ------------------------------------------------- a caller of TestSuite
\* the shortest duration whose product with a score of 100 leaves 32 bits,
\* and the longest duration the model's integers hold
SecsBig == (2^30 \div 25) + 1
SecsMax == (2^30 - 1) + 2^30

SuiteResults ==
    { TestResult("cpu_stress", "Completed", 100, 10, <<>>),
      TestResult("memory_validation", "Completed", 50, 20, <<>>),
      TestResult("storage_io", "Failed", 0, 30, <<>>),
      TestResult("thermal_monitor", "Skipped", 100, 0, <<>>),
      TestResult("network", "Partial", 75, 0, <<>>),
      TestResult("cpu_stress", "Completed", 100, SecsBig, <<>>),
      TestResult("memory_validation", "Completed", 251, SecsMax, <<>>),
      TestResult("storage_io", "Completed", 90, 2, <<>>) }

SuiteInit ==
    /\ registered = <<>>
    /\ tests = <<>>
    /\ RunIdle
    /\ metrics = NoMetrics
    /\ config = TestConfig_default
    /\ suite = TestSuite_new
    /\ overflow_checks \in BOOLEAN
    /\ panicked = FALSE
    /\ fin_calls = 0
    /\ clean_fins = 0

\* suite.results.push(r): results is a public field
PushResult(r) ==
    /\ ~panicked
    /\ Len(suite.results) < MaxResults
    /\ suite' = [suite EXCEPT !.results = Append(@, r)]
    /\ clean_fins' = 0
    /\ UNCHANGED <<work_vars, cfg_vars, fs_vars, harness_vars, score_vars, top_vars, overflow_checks, panicked, fin_calls, run_vars, hist_vars>>

\* suite.finalize()
Finalize ==
    /\ ~panicked
    /\ fin_calls < MaxFinalize
    /\ \E f \in {finalize(suite)} :
           /\ suite' = f.suite
           /\ panicked' = f.panic
           /\ fin_calls' = IF f.panic THEN fin_calls ELSE fin_calls + 1
           /\ clean_fins' = IF f.panic THEN clean_fins ELSE clean_fins + 1
    /\ UNCHANGED <<work_vars, cfg_vars, fs_vars, harness_vars, score_vars, top_vars, overflow_checks, run_vars, hist_vars>>

SuiteNext ==
    \/ \E r \in SuiteResults : PushResult(r)
    \/ Finalize

SpecSuite == SuiteInit /\ [][SuiteNext]_vars

\* ------------------------------------------------- claims on TestSuite
\* the suite holds what a completed finalize computed from its present results
Finalized == clean_fins > 0

\* C1: after finalize on a suite with at least one result, overall_status is
\* Failed iff some result is Failed; otherwise Partial iff some result is
\* Partial; otherwise Completed.
C1_StatusRule ==
    (Finalized /\ suite.results # <<>>) =>
        LET anyF == any_status(suite.results, "Failed")
            anyP == any_status(suite.results, "Partial")
        IN  /\ (suite.overall_status = "Failed") <=> anyF
            /\ ~anyF => ((suite.overall_status = "Partial") <=> anyP)
            /\ (~anyF /\ ~anyP) => suite.overall_status = "Completed"

C1_Witness ==
    /\ Finalized
    /\ any_status(suite.results, "Partial")
    /\ any_status(suite.results, "Skipped")
    /\ ~any_status(suite.results, "Failed")
    /\ suite.overall_status = "Partial"

\* the sums of the claim, computed without any width
RECURSIVE exact_weighted_sum(_)
exact_weighted_sum(rs) ==
    IF rs = <<>> THEN WZero
    ELSE WAdd(WMulSmall(Wide(Head(rs).duration), Head(rs).score),
              exact_weighted_sum(Tail(rs)))

\* the truncated quotient n / d of wide values, known to be at most 255
ExactQuotient(n, d) ==
    CHOOSE q \in 0..255 : WLeq(WMulSmall(d, q), n) /\ WLess(n, WMulSmall(d, q + 1))

ExpectedScore(rs) ==
    IF total_duration_secs(rs) = WZero
    THEN score_sum(rs) \div Len(rs)
    ELSE ExactQuotient(exact_weighted_sum(rs), total_duration_secs(rs))

\* C3: for a suite with at least one result, finalize sets overall_score to the
\* truncated quotient sum(score_i * duration_i) / sum(duration_i) when the
\* durations sum to more than zero, and to the truncated unweighted mean
\* sum(score_i) / count when they sum to zero.
C3_WeightedScore ==
    (Finalized /\ suite.results # <<>>) =>
        suite.overall_score = ExpectedScore(suite.results)

\* C4: a second finalize on unchanged results leaves overall_score and
\* overall_status as the first one set them.
C4_FinalizeIdempotent ==
    [][(clean_fins > 0 /\ clean_fins' = clean_fins + 1) =>
           /\ suite'.overall_score = suite.overall_score
           /\ suite'.overall_status = suite.overall_status]_vars

C4_Witness ==
    /\ clean_fins = 2
    /\ suite.results # <<>>
    /\ suite.overall_score > 0

\* ------------------------------------------------- claims on the scheduler
RegisteredSet == {registered[i] : i \in 1..Len(registered)}
ResultSet == {result_units[i] : i \in 1..Len(result_units)}
Returned(u) == outcome[u] # NoOutcome
ReturnedErr(u) == Returned(u) /\ ~outcome[u].ok
CpuOrMemoryUnit(u) == u \in {1, 2}

\* C2: finalize on a suite with no results sets overall_score to 0 and
\* overall_status to Failed, so a run in which no unit produced a result
\* returns a suite that is Failed.
C2_EmptySuiteFails ==
    (Finalized /\ suite.results = <<>>) =>
        suite.overall_score = 0 /\ suite.overall_status = "Failed"

C2_Witness ==
    /\ pc = "done"
    /\ registered # <<>>
    /\ checked[registered[1]] = "set"
    /\ suite.results = <<>>
    /\ suite.overall_status = "Failed"

\* the units whose interrupt check found the flag set
Declined == {u \in RegisteredSet : checked[u] = "set"}

\* the other units that stand after one whose check found the flag set
Unreached ==
    {other_tests[j] : j \in {j \in 1..Len(other_tests) :
                                \E i \in 1..(j - 1) : checked[other_tests[i]] = "set"}}

GroupingHolds ==
    /\ \A u \in RegisteredSet : InGroupList(u) <=> CpuOrMemoryUnit(u)
    /\ \A u \in RegisteredSet :
           execs[u] > 0 => ran_in[u] = (IF CpuOrMemoryUnit(u) THEN "group" ELSE "other")
    /\ Len(cpu_memory_tests) + Len(other_tests) = Len(registered)

\* C5 as stated: after execute_parallel the cpu and memory units were run in
\* the concurrent group and all others in the sequential phase, and the units
\* with a result are the registered units minus exactly those whose interrupt
\* check found the flag set, each once.
C5_ResultsAllButDeclined ==
    (pc = "done" /\ strategy = "parallel") =>
        /\ GroupingHolds
        /\ ResultSet = RegisteredSet \ Declined
        /\ Len(result_units) = Cardinality(ResultSet)

\* C5 amended: after execute_parallel the cpu and memory units were run in the
\* concurrent group and all others in the sequential phase, and the units with
\* a result are the registered units minus those whose interrupt check found
\* the flag set and minus the other units that stand after such a unit, which
\* the stopped loop never checks; each unit with a result has it once.
C5_ResultsAllButDeclinedOrUnreached ==
    (pc = "done" /\ strategy = "parallel") =>
        /\ GroupingHolds
        /\ ResultSet = RegisteredSet \ (Declined \cup Unreached)
        /\ \A u \in Unreached : checked[u] = "no" /\ execs[u] = 0
        /\ Len(result_units) = Cardinality(ResultSet)

C5_Witness ==
    /\ pc = "done"
    /\ strategy = "parallel"
    /\ Unreached # {}
    /\ \E u \in ResultSet : CpuOrMemoryUnit(u)

\* C6: a unit whose execute was called and returned, Ok or Err, has its
\* cleanup called exactly once, after execute returned and before the
\* scheduler starts the next unit or the next group: while a unit executes,
\* the only other units not yet cleaned up are fellow members of the
\* concurrent group.
C6_CleanupOnceBeforeNext ==
    /\ \A u \in Units :
           /\ cleanups[u] <= 1
           /\ cleanups[u] > 0 => Returned(u)
           /\ (Returned(u) /\ stage[u] # "post") => cleanups[u] = 1
           /\ (pc = "done" /\ execs[u] > 0) => (execs[u] = 1 /\ cleanups[u] = 1)
    /\ \A u, v \in Units :
           (u # v /\ stage[u] = "exec" /\ execs[v] > 0 /\ cleanups[v] = 0)
               => (ran_in[u] = "group" /\ ran_in[v] = "group")

C6_Witness ==
    /\ pc = "done"
    /\ strategy = "parallel"
    /\ \E u, v \in Units :
           /\ ran_in[u] = "group" /\ ReturnedErr(u) /\ cleanups[u] = 1
           /\ ran_in[v] = "other" /\ Returned(v) /\ outcome[v].ok /\ cleanups[v] = 1

\* C7: in execute_sequential, when the flag becomes set after unit k has
\* finished and before the check of unit k+1, the loop stops: the suite holds
\* exactly the results of units 1..k in registration order, no later unit is
\* run, and overall_score and overall_status are those of these k results.
C7_InterruptStopsLoop ==
    (pc = "done" /\ strategy = "sequential"
         /\ int_when[1] = "boundary" /\ int_when[2] >= 1) =>
        LET k == int_when[2]
        IN  /\ result_units = SubSeq(registered, 1, k)
            /\ suite.results = [i \in 1..k |-> produced[registered[i]]]
            /\ \A i \in (k + 1)..Len(registered) : execs[registered[i]] = 0
            /\ suite.overall_score = ExpectedScore(suite.results)
            /\ suite.overall_status =
                   (IF \E i \in 1..k : produced[registered[i]].status = "Failed"
                    THEN "Failed" ELSE "Completed")

C7_Witness ==
    /\ pc = "done"
    /\ strategy = "sequential"
    /\ Len(registered) = 3
    /\ int_when = <<"boundary", 1>>
    /\ Len(suite.results) = 1

\* C8: when a unit's execute returns Err(e), in the sequential loop, in the
\* parallel group and in the loop over the other units, the scheduler records
\* for it a result with status Failed, score 0 and exactly one issue, Critical,
\* whose message is "Test failed: " followed by the error's message; the run
\* still returns Ok with that result in the suite.
C8_ErrBecomesFailedResult ==
    \A u \in Units :
        ReturnedErr(u) =>
            LET r == produced[u]
                e == outcome[u].error
            IN  /\ r.status = "Failed"
                /\ r.score = 0
                /\ Len(r.issues) = 1
                /\ r.issues[1].severity = "Critical"
                /\ r.issues[1].message = <<"Test failed: ", ErrorPrefix[e.kind], e.text>>
                /\ contains(r.issues[1].message, e.text)
                /\ pc = "done" =>
                       /\ returned = "Ok"
                       /\ \E i \in 1..Len(result_units) :
                              result_units[i] = u /\ suite.results[i] = r

C8_Witness ==
    /\ pc = "done"
    /\ strategy = "parallel"
    /\ \E u, v \in Units :
           /\ ran_in[u] = "group" /\ ReturnedErr(u)
           /\ ran_in[v] = "other" /\ ReturnedErr(v)

\* ------------------------------------------------------- scores of the units
\* A score is a u8.  An operation on it yields panic or a value: with
\* overflow checks an overflowing `-` or `*` panics, without them it wraps.
U8Max == U8Mod - 1
Min(a, b) == IF a < b THEN a ELSE b
U8(v) == [panic |-> FALSE, value |-> v]

\* `n as u8` for an integer of a wider type: the low eight bits
AsU8(n) == n % U8Mod

\* `(num / den) as u8` for a float that is num / den with den > 0:
\* toward zero, saturating at 0 and at 255
FloatAsU8(num, den) == IF num <= 0 THEN 0 ELSE Min(num \div den, U8Max)

U8Mul(a, b) ==
    IF a * b <= U8Max THEN U8(a * b)
    ELSE [panic |-> overflow_checks, value |-> (a * b) % U8Mod]

U8Sub(a, b) ==
    IF a >= b THEN U8(a - b)
    ELSE [panic |-> overflow_checks, value |-> (a - b) + U8Mod]

\* p.min(cap) on a penalty whose computation may have panicked
U8Min(p, cap) == [p EXCEPT !.value = Min(@, cap)]

\* score -= p
Penalize(score, p) ==
    IF score.panic \/ p.panic THEN [panic |-> TRUE, value |-> 0]
    ELSE U8Sub(score.value, p.value)

FullScore == U8(100)

unit_status_left_running(issues) ==
    IF \E i \in 1..Len(issues) : issues[i].severity = "Critical"
    THEN "Failed" ELSE "Running"

unit_status_failing_on_high(issues) ==
    IF \E i \in 1..Len(issues) : issues[i].severity \in {"Critical", "High"}
    THEN "Failed" ELSE "Completed"

\* status of a unit's result: Failed iff an issue is Critical
unit_status(issues) ==
    IF \E i \in 1..Len(issues) : issues[i].severity = "Critical"
    THEN "Failed" ELSE "Completed"

IssueIf(cond, issue) == IF cond THEN <<issue>> ELSE <<>>

Scored(u, score, issues, elapsed) ==
    IF score.panic THEN [panic |-> TRUE]
    ELSE [panic |-> FALSE,
          outcome |-> [ok |-> TRUE,
                       result |-> TestResult(name(u), unit_status(issues),
                                             score.value, elapsed, issues)]]

Returns(out) == [panic |-> FALSE, outcome |-> out]

Skipped(u, elapsed, issues) ==
    Returns([ok |-> TRUE, result |-> TestResult(name(u), "Skipped", 100, elapsed, issues)])

\* ---- CpuStressTest::execute
\* Each per-second update reads the frequency twice from one snapshot and
\* counts an event when the first reading is below 0.9 of the second.
cpu_throttling_events(m) ==
    IF m.frequency * 10 < m.frequency * 9 THEN m.updates ELSE 0

cpu_utilization(m) == IF m.updates = 0 THEN 0 ELSE m.usage

\* `(final_throttling_events as u8).min(20)`
cpu_throttling_penalty(m) == U8(Min(AsU8(cpu_throttling_events(m)), 20))

cpu_score(m) ==
    LET events == cpu_throttling_events(m)
        util   == cpu_utilization(m)
        s1 == IF events > 0 THEN Penalize(FullScore, cpu_throttling_penalty(m))
              ELSE FullScore
    IN  IF util < 90 THEN Penalize(s1, U8(FloatAsU8(90 - util, 2))) ELSE s1

cpu_issues(m) ==
    IssueIf(cpu_throttling_events(m) > 5,
            TestIssue("cpu", "Medium",
                      <<"CPU thermal throttling detected", cpu_throttling_events(m)>>,
                      Some("Check cooling system and airflow")))
    \o IssueIf(cpu_utilization(m) < 80,
            TestIssue("cpu", "Low",
                      <<"CPU utilization lower than expected", cpu_utilization(m)>>,
                      Some("Check for CPU resource limits or contention")))

cpu_execute(m) == Scored(1, cpu_score(m), cpu_issues(m), m.elapsed)

\* ---- MemoryTest::execute
\* test_walking_bits and test_multithreaded_access succeed iff no error
\* has been counted.
\* `((1000.0 - final_bandwidth) / 100.0).min(20.0) as u8`
memory_bandwidth_penalty(m) == U8(Min(FloatAsU8(1000 - m.bandwidth, 100), 20))

memory_score(m) ==
    LET s0 == IF m.error_count > 0 THEN U8(0) ELSE FullScore
    IN  IF m.bandwidth < 1000
        THEN Penalize(s0, memory_bandwidth_penalty(m))
        ELSE s0

memory_issues(m) ==
    IssueIf(m.error_count > 0,
            TestIssue("memory", "Critical",
                      <<"Memory errors detected", m.error_count>>,
                      Some("Run extended memory diagnostics and consider replacing memory modules")))
    \o IssueIf(~m.seq_result,
            TestIssue("memory", "High", <<"Sequential memory access test failed">>,
                      Some("Check for memory corruption or hardware issues")))
    \o IssueIf(~m.random_result,
            TestIssue("memory", "Medium", <<"Random memory access test failed">>,
                      Some("Check for memory addressing issues")))
    \o IssueIf(m.error_count > 0,
            TestIssue("memory", "High", <<"Walking bit pattern test failed">>,
                      Some("Check for stuck bits in memory")))
    \o IssueIf(m.error_count > 0,
            TestIssue("memory", "Medium", <<"Multi-threaded memory access test failed">>,
                      Some("Check for memory contention issues")))

memory_execute(m) == Scored(2, memory_score(m), memory_issues(m), m.elapsed)

\* ---- StorageTest::execute
\* error_count counts the paths whose test file could not be removed.
storage_error_count(m) == IF m.remove_fails THEN m.paths ELSE 0

\* `(final_error_count as u8 * 5).min(50)`
storage_error_penalty(m) == U8Min(U8Mul(AsU8(storage_error_count(m)), 5), 50)

storage_score(m) ==
    LET errors == storage_error_count(m)
        s0 == Penalize(FullScore, storage_error_penalty(m))
        s1 == IF m.seq_read < 50
              THEN Penalize(s0, U8(Min(FloatAsU8(50 - m.seq_read, 5), 10))) ELSE s0
        s2 == IF m.seq_write < 20
              THEN Penalize(s1, U8(Min(FloatAsU8(20 - m.seq_write, 2), 10))) ELSE s1
        s3 == IF m.rand_read < 1000
              THEN Penalize(s2, U8(Min(FloatAsU8(1000 - m.rand_read, 100), 10))) ELSE s2
    IN  IF m.rand_write < 500
        THEN Penalize(s3, U8(Min(FloatAsU8(500 - m.rand_write, 50), 10))) ELSE s3

storage_issues(m) ==
    LET errors == storage_error_count(m)
    IN  IssueIf(errors > 0,
                TestIssue("storage", IF errors > 5 THEN "Critical" ELSE "High",
                          <<"Storage I/O errors detected", errors>>,
                          Some("Check disk health and file system integrity")))
        \o IssueIf(m.seq_read < 10,
                TestIssue("storage", "Medium",
                          <<"Sequential read performance is very low", m.seq_read>>,
                          Some("Check for disk issues or resource contention")))
        \o IssueIf(m.seq_write < 5,
                TestIssue("storage", "Medium",
                          <<"Sequential write performance is very low", m.seq_write>>,
                          Some("Check for disk issues or resource contention")))

storage_execute(m) ==
    IF m.paths = 0
    THEN Returns([ok |-> FALSE,
                  error |-> BurnInError("InsufficientResources",
                                        "No suitable storage paths found for testing"),
                  elapsed |-> 0])
    ELSE Scored(3, storage_score(m), storage_issues(m), m.elapsed)

\* ---- NetworkTest::execute
\* packet loss is carried in hundredths of a percent; error_count is never
\* written after its initialisation.
network_error_count == 0

network_score(m) ==
    LET s1 == IF m.latency > 100
              THEN Penalize(FullScore, U8(Min(FloatAsU8(m.latency - 100, 10), 20)))
              ELSE FullScore
        s2 == IF m.download < 10
              THEN Penalize(s1, U8(Min(FloatAsU8(10 - m.download, 1), 20))) ELSE s1
        s3 == IF m.upload < 5
              THEN Penalize(s2, U8(Min(FloatAsU8((5 - m.upload) * 2, 1), 10))) ELSE s2
        s4 == IF m.packet_loss > 100
              THEN Penalize(s3, U8(Min(FloatAsU8((m.packet_loss - 100) * 5, 100), 30)))
              ELSE s3
    IN  Penalize(s4, U8Min(U8Mul(AsU8(network_error_count), 5), 20))

network_issues(m) ==
    IssueIf(m.latency > 200,
            TestIssue("network", "Medium", <<"High network latency", m.latency>>,
                      Some("Check network connection and routing")))
    \o IssueIf(m.download < 5,
            TestIssue("network", "Medium", <<"Low download speed", m.download>>,
                      Some("Check network bandwidth and connectivity")))
    \o IssueIf(m.packet_loss > 200,
            TestIssue("network", "High", <<"High packet loss", m.packet_loss>>,
                      Some("Check for network congestion or hardware issues")))

network_execute(m) ==
    IF ~m.network_enabled THEN Skipped(4, 0, <<>>)
    ELSE IF m.successful_pings = 0
    THEN Returns([ok |-> FALSE,
                  error |-> BurnInError("TestExecutionError",
                                        "Failed to connect to any hosts for latency test"),
                  elapsed |-> 0])
    ELSE Scored(4, network_score(m), network_issues(m), m.elapsed)

\* ---- ThermalTest::execute
thermal_warning_threshold == 80
thermal_critical_threshold == 90

\* `((over_warning / warning_range) * 30.0) as u8`
thermal_temperature_penalty(m) ==
    LET over_warning  == m.max_temp - thermal_warning_threshold
        warning_range == thermal_critical_threshold - thermal_warning_threshold
    IN  U8(FloatAsU8(over_warning * 30, warning_range))

\* `(final_criticals as u8 * 10).min(50)`
thermal_critical_penalty(m) == U8Min(U8Mul(AsU8(m.critical_events), 10), 50)

thermal_score(m) ==
    LET s1 == IF m.max_temp > thermal_warning_threshold
              THEN Penalize(FullScore, thermal_temperature_penalty(m))
              ELSE FullScore
    IN  Penalize(s1, thermal_critical_penalty(m))

thermal_issues(m) ==
    (IF m.critical_events > 0
     THEN <<TestIssue("thermal", "Critical",
                      <<"Critical temperature threshold exceeded", m.critical_events>>,
                      Some("Check cooling system immediately"))>>
     ELSE IssueIf(m.warning_events > 0,
                  TestIssue("thermal", "High",
                            <<"Warning temperature threshold exceeded", m.warning_events>>,
                            Some("Improve cooling or reduce system load"))))
    \o IssueIf(m.max_temp > 85,
            TestIssue("thermal", "Medium",
                      <<"Maximum temperature is very high", m.max_temp>>,
                      Some("Check cooling system efficiency")))

\* a hardware detection that fails
detect_hardware_failing ==
    [ok |-> FALSE, error |-> BurnInError("HardwareFailure", "no CPU information")]

\* CpuStressTest::detect_hardware: every path ends in Ok(hardware_info)
cpu_detect_hardware == [ok |-> TRUE]

\* ThermalMonitorTest::detect_hardware: CpuStressTest.detect_hardware()?,
\* then the sensors, then Ok(hardware_info)
thermal_detect_hardware ==
    IF ~cpu_detect_hardware.ok THEN cpu_detect_hardware ELSE [ok |-> TRUE]

thermal_execute(m) ==
    IF ~m.thermal_monitoring THEN Skipped(5, 0, <<>>)
    ELSE IF ~thermal_detect_hardware.ok
    THEN Returns([ok |-> FALSE, error |-> thermal_detect_hardware.error, elapsed |-> 0])
    ELSE IF m.sensors = 0
    THEN Skipped(5, m.elapsed,
                 <<TestIssue("thermal", "Low", <<"No thermal sensors detected">>,
                             Some("Check if your system supports thermal monitoring"))>>)
    ELSE Scored(5, thermal_score(m), thermal_issues(m), m.elapsed)

\* ---- final metric values a run of each unit can arrive at
CpuMetrics ==
    [unit : {1}, frequency : {0, 2400}, updates : {0, 2},
     usage : {0, 50, 79, 85, 90, 100}, elapsed : {10}]

MemoryMetrics ==
    [unit : {2}, error_count : {0, 1, 3},
     bandwidth : {100, 500, 900, 950, 1000, 5000},
     seq_result : BOOLEAN, random_result : BOOLEAN, elapsed : {10}]

StorageMetrics ==
    [unit : {3}, paths : {0, 1, 6, 52}, remove_fails : BOOLEAN,
     seq_read : {0, 30, 200}, seq_write : {0, 10, 100},
     rand_read : {500, 5000}, rand_write : {250, 1000}, elapsed : {10}]

NetworkMetrics ==
    [unit : {4}, network_enabled : BOOLEAN, successful_pings : {0, 3},
     latency : {20, 150, 400}, download : {8, 12}, upload : {4, 6},
     packet_loss : {20, 145}, elapsed : {10}]

\* A reading at or above a threshold counts an event, and every critical
\* reading is a warning reading too.
ThermalMetrics ==
    { m \in [unit : {5}, thermal_monitoring : BOOLEAN, sensors : {0, 2},
             max_temp : {0, 60, 80, 85, 90, 95, 100, 115},
             warning_events : {0, 1, 5, 26, 30},
             critical_events : {0, 1, 5, 26}, elapsed : {10}] :
        /\ (m.critical_events > 0) = (m.max_temp >= thermal_critical_threshold)
        /\ (m.warning_events > 0) = (m.max_temp >= thermal_warning_threshold)
        /\ m.warning_events >= m.critical_events }

ScoreInit ==
    /\ metrics \in CpuMetrics \cup MemoryMetrics \cup StorageMetrics
                   \cup NetworkMetrics \cup ThermalMetrics
    /\ overflow_checks \in BOOLEAN
    /\ registered = <<>>
    /\ tests = <<>>
    /\ RunIdle
    /\ config = TestConfig_default
    /\ suite = TestSuite_new
    /\ panicked = FALSE
    /\ fin_calls = 0
    /\ clean_fins = 0

\* one call of execute on unit u, which comes to r
Execute(u, r) ==
    /\ metrics.unit = u
    /\ exec_result = NoOutcome
    /\ ~panicked
    /\ panicked' = r.panic
    /\ exec_result' = IF r.panic THEN exec_result ELSE r.outcome
    /\ UNCHANGED <<suite, overflow_checks, fin_calls, clean_fins, metrics,
                   run_vars, hist_vars, top_vars, harness_vars, work_vars, cfg_vars, fs_vars>>

\* the scheduler's match on what execute returned, and the push of the result
RecordResult ==
    /\ exec_result # NoOutcome
    /\ suite.results = <<>>
    /\ suite' = [suite EXCEPT !.results = Append(@, result_of(metrics.unit, exec_result))]
    /\ UNCHANGED <<overflow_checks, panicked, fin_calls, clean_fins, run_vars, hist_vars,
                   score_vars, top_vars, harness_vars, work_vars, cfg_vars, fs_vars>>

CpuExecute == metrics.unit = 1 /\ Execute(1, cpu_execute(metrics))
MemoryExecute == metrics.unit = 2 /\ Execute(2, memory_execute(metrics))
StorageExecute == metrics.unit = 3 /\ Execute(3, storage_execute(metrics))
NetworkExecute == metrics.unit = 4 /\ Execute(4, network_execute(metrics))
ThermalExecute == metrics.unit = 5 /\ Execute(5, thermal_execute(metrics))

\* suite.finalize() at the end of the run that recorded the result
ScoreFinalize ==
    /\ suite.results # <<>>
    /\ Finalize

ScoreNext ==
    \/ ScoreFinalize
    \/ CpuExecute
    \/ MemoryExecute
    \/ StorageExecute
    \/ NetworkExecute
    \/ ThermalExecute
    \/ RecordResult

SpecScore == ScoreInit /\ [][ScoreNext]_vars

\* ------------------------------------------------ claims about unit scores
ExecuteEnded == panicked \/ exec_result # NoOutcome
ExecuteGaveResult == ~panicked /\ exec_result # NoOutcome /\ exec_result.ok

\* C9: when the memory unit has counted a nonzero number of errors, its
\* result has score exactly 0 and status Failed, whatever the bandwidth.
C9_MemoryErrorsScoreZero ==
    (metrics.unit = 2 /\ metrics.error_count > 0 /\ ExecuteEnded)
        => /\ ExecuteGaveResult
           /\ exec_result.result.score = 0
           /\ exec_result.result.status = "Failed"

\* C10: every result a unit's execute returns has a score in 0..100, and no
\* subtraction from the score goes below zero (none panics, none wraps).
C10_ScoreInRange ==
    ExecuteEnded
        => /\ ~panicked
           /\ exec_result.ok => exec_result.result.score \in 0..100

\* ------------------------------------------------ claims about the top of a run
NoUnitTouched == \A u \in Units : execs[u] = 0 /\ cleanups[u] = 0 /\ stage[u] = "idle"

\* no TestSuite was created, finalized or reported: no strategy began
NoSuiteMade ==
    /\ strategy = "none"
    /\ suite = TestSuite_new
    /\ fin_calls = 0
    /\ result_units = <<>>

\* C11: when the interrupt handler cannot be installed, the run returns
\* Err(UnexpectedError) to its caller; no unit's execute or cleanup is called
\* and no TestSuite is created, finalized or reported.
C11_HandlerFailureIsFatal ==
    handler = "failed"
        => /\ returned = Err_UnexpectedError
           /\ pc = "done"
           /\ NoUnitTouched
           /\ NoSuiteMade
           /\ warnings = 0

C11_Witness ==
    /\ handler = "failed"
    /\ Len(registered) = MaxTopUnits
    /\ returned = Err_UnexpectedError

\* C12: the run uses execute_parallel iff cpu_enabled and memory_enabled are
\* both true and execute_sequential otherwise, and no unit is started by the
\* chosen strategy before the handler is installed.
C12_StrategyByConfig ==
    /\ strategy = "parallel" => (config.cpu_enabled /\ config.memory_enabled)
    /\ strategy = "sequential" => ~(config.cpu_enabled /\ config.memory_enabled)
    /\ strategy # "none" => handler = "installed"
    /\ (\E u \in Units : stage[u] # "idle") => (handler = "installed" /\ strategy # "none")
    /\ (handler = "installed" /\ pc \notin {"idle", "entered"}) => strategy # "none"

C12_Witness ==
    /\ strategy = "sequential"
    /\ config.cpu_enabled /\ ~config.memory_enabled
    /\ registered = <<1, 2>>
    /\ execs[1] = 1 /\ execs[2] = 1
    /\ returned = "Ok"

C12_WitnessParallel ==
    /\ strategy = "parallel"
    /\ ran_in[1] = "group" /\ ran_in[2] = "group"
    /\ returned = "Ok"

\* C13: the exit code is 1 exactly when the run produced a suite whose
\* overall_status is Failed, 2 exactly when the run returned an error instead
\* of a suite, and 0 when the run produced a suite that is not Failed.
C13_ExitCodes ==
    exit_code # None
        => LET suite_made == returned = "Ok"
               failed     == suite_made /\ suite.overall_status = "Failed"
           IN  /\ (exit_code = Some(1)) = failed
               /\ (exit_code = Some(2)) = (returned = Err_UnexpectedError)
               /\ (suite_made /\ ~failed) => exit_code = Some(0)

\* what holds of the exit code once a run has been entered
C13_ExitCodesOfARun ==
    (exit_code # None /\ handler # "none") => C13_ExitCodes

\* ------------------------------------------ claims about cleanup and the flag
RunReturnedOk == pc = "done" /\ returned = "Ok"

\* C14: a cleanup that returns Err costs exactly one report_warning and
\* nothing else: the unit's recorded result stays in the suite as it was
\* made, the remaining units are still run, and the run returns Ok(suite).
C14_CleanupErrOnlyWarns ==
    /\ warnings = cleanup_errs
    /\ \A u \in Units : cleanups[u] > 0 => produced[u] = result_of(u, outcome[u])
    /\ \A i \in 1..Len(result_units) :
           suite.results[i] = result_of(result_units[i], outcome[result_units[i]])
    /\ (pc = "done" /\ handler = "installed") => returned = "Ok"
    /\ (RunReturnedOk /\ ~interrupted)
           => \A u \in RegisteredSet : execs[u] = 1 /\ cleanups[u] = 1 /\ u \in ResultSet

C14_Witness ==
    /\ RunReturnedOk
    /\ ~interrupted
    /\ Len(registered) = MaxUnits
    /\ cleanup_errs = MaxUnits
    /\ warnings = MaxUnits
    /\ Len(suite.results) = MaxUnits

\* C17: the flag is never cleared once set, and a boundary check made while
\* it is set declines its unit: the unit is not started (no report_test_start,
\* no execute), gets no cleanup and no result.
C17_FlagStaysSetAndDeclines ==
    /\ [][interrupted => interrupted']_vars
    /\ [][\A u \in Units :
            (interrupted /\ checked[u] = "no" /\ checked'[u] # "no")
                => (checked'[u] = "set" /\ stage'[u] = "declined")]_vars
    /\ [](\A u \in Units :
            checked[u] = "set"
                => /\ stage[u] = "declined"
                   /\ execs[u] = 0
                   /\ cleanups[u] = 0
                   /\ produced[u] = NoResult
                   /\ u \notin ResultSet)

\* a unit of the group, a unit of the sequential loop or of the other loop
\* declined, after the run is over
C17_Witness ==
    /\ RunReturnedOk
    /\ strategy = "parallel"
    /\ \E u, v \in RegisteredSet :
           /\ checked[u] = "set" /\ ran_in[u] = "none" /\ in_cpu_memory_group(u)
           /\ checked[v] = "set" /\ ~in_cpu_memory_group(v)

\* ------------------------------------------- claims about results and issues
HasCritical(r) == \E i \in 1..Len(r.issues) : r.issues[i].severity = "Critical"

\* execute returned before measuring anything
TookSkipPath(m) ==
    \/ m.unit = 4 /\ ~m.network_enabled
    \/ m.unit = 5 /\ (~m.thermal_monitoring \/ m.sensors = 0)

\* C18: every TestResult returned by a unit's execute has status Failed if
\* its issues include a Critical one and status Completed otherwise.
C18_StatusFromIssues ==
    ExecuteGaveResult
        => exec_result.result.status =
               (IF HasCritical(exec_result.result) THEN "Failed" ELSE "Completed")

\* C18 as the code has it: the rule holds of every result that execute builds
\* from its final metrics; a result returned by a skip path is Skipped and
\* has no Critical issue.
C18_StatusFromIssuesUnlessSkipped ==
    ExecuteGaveResult
        => LET r == exec_result.result
           IN  IF TookSkipPath(metrics)
               THEN r.status = "Skipped" /\ ~HasCritical(r)
               ELSE r.status = (IF HasCritical(r) THEN "Failed" ELSE "Completed")

C18_Witness ==
    /\ ExecuteGaveResult
    /\ metrics.unit = 3
    /\ HasCritical(exec_result.result)
    /\ Len(exec_result.result.issues) = 3
    /\ exec_result.result.status = "Failed"

\* C19: every Critical issue in a result of the suite, whether a unit's
\* scoring raised it or the scheduler made it of a failed execute, carries a
\* suggested action.
C19_CriticalIssuesCarryAction ==
    \A i \in 1..Len(suite.results) :
        \A j \in 1..Len(suite.results[i].issues) :
            suite.results[i].issues[j].severity = "Critical"
                => suite.results[i].issues[j].action # None

C19_Witness ==
    /\ suite.results # <<>>
    /\ ~exec_result.ok
    /\ HasCritical(suite.results[1])

C19_WitnessScored ==
    /\ suite.results # <<>>
    /\ exec_result.ok
    /\ metrics.unit \in {2, 3, 5}
    /\ HasCritical(suite.results[1])

\* C20: each penalty subtracted from a score is at most its cap: CPU
\* throttling 20, memory bandwidth 20, thermal over-warning temperature 30,
\* thermal critical events 50, storage errors 50.
C20_PenaltiesCapped ==
    ExecuteEnded
        => /\ metrics.unit = 1 => cpu_throttling_penalty(metrics).value <= 20
           /\ metrics.unit = 2 => memory_bandwidth_penalty(metrics).value <= 20
           /\ metrics.unit = 3 /\ metrics.paths > 0
                  => storage_error_penalty(metrics).value <= 50
           /\ (metrics.unit = 5 /\ ~TookSkipPath(metrics))
                  => /\ thermal_critical_penalty(metrics).value <= 50
                     /\ metrics.max_temp > thermal_warning_threshold
                            => thermal_temperature_penalty(metrics).value <= 30

\* the caps that the code does apply
C20_CapsApplied ==
    ExecuteEnded
        => /\ metrics.unit = 1 => cpu_throttling_penalty(metrics).value <= 20
           /\ metrics.unit = 2 => memory_bandwidth_penalty(metrics).value <= 20
           /\ metrics.unit = 3 /\ metrics.paths > 0
                  => storage_error_penalty(metrics).value <= 50
           /\ (metrics.unit = 5 /\ ~TookSkipPath(metrics))
                  => thermal_critical_penalty(metrics).value <= 50

\* -------------------------------- the threads of a harness-based execute
\* CpuStressTest::execute, MemoryValidationTest's test_multithreaded_access
\* and ThermalMonitorTest::execute past its skip paths: a timer thread and
\* the workers (or the one monitor) share the stop flag and the metric
\* mutexes with execute's own thread.
other_vars == <<suite_vars, run_vars, hist_vars, score_vars, top_vars, work_vars, cfg_vars, fs_vars>>

HarnessUnits == {"cpu_stress", "memory_validation", "thermal_monitor"}

\* temperatures a sensor reports: below the warning threshold, between the
\* two thresholds, above the critical one
SensorTemps == {70, 85, 95}

\* test_multithreaded_access: the slice mem[start..end] of the worker with
\* the given id, ids counted from 0
chunk_size == size \div thread_count

range_start(id) == id * chunk_size

range_end_even(id) == (id + 1) * chunk_size

range_end(id) == IF id = thread_count - 1 THEN size ELSE (id + 1) * chunk_size

\* the state of one harness-based unit when its execute is called
HarnessThreadsInit ==
    /\ harness \in HarnessUnits
    /\ thread_count \in (IF harness = "thermal_monitor" THEN {1} ELSE 1..MaxThreads)
    /\ main_at = "spawn"
    /\ joined = <<>>
    /\ running = TRUE
    /\ thread = [t \in ThreadIds |-> "absent"]
    /\ temp = 0
    /\ owner = [l \in Locks |-> NoOwner]
    /\ writes = 0
    /\ final_metrics = None
    /\ live_at_read = {}

\* no runner, suite or file system takes part in the harness runs
HarnessRestIdle ==
    /\ FsIdle
    /\ registered = <<>>
    /\ tests = <<>>
    /\ interrupted = FALSE
    /\ strategy = "none"
    /\ pc = "idle"
    /\ idx = 0
    /\ cpu_memory_tests = <<>>
    /\ other_tests = <<>>
    /\ stage = [u \in Units |-> "idle"]
    /\ produced = [u \in Units |-> NoResult]
    /\ returned = "none"
    /\ checked = [u \in Units |-> "no"]
    /\ execs = [u \in Units |-> 0]
    /\ cleanups = [u \in Units |-> 0]
    /\ ran_in = [u \in Units |-> "none"]
    /\ outcome = [u \in Units |-> NoOutcome]
    /\ result_units = <<>>
    /\ warnings = 0
    /\ cleanup_errs = 0
    /\ reports = NoReports
    /\ int_when = <<"never">>
    /\ exec_result = NoOutcome
    /\ handler = "none"
    /\ exit_code = None
    /\ metrics = NoMetrics
    /\ config = TestConfig_default
    /\ suite = TestSuite_new
    /\ overflow_checks = FALSE
    /\ panicked = FALSE
    /\ fin_calls = 0
    /\ clean_fins = 0

HarnessInit ==
    /\ HarnessThreadsInit
    /\ ConfigIdle
    /\ size \in (IF harness = "memory_validation" THEN 0..MaxSize ELSE {0})
    /\ ClockIdle
    /\ HarnessRestIdle

\* the handles in the order execute joins them
handles ==
    IF harness = "thermal_monitor"
    THEN <<timer_thread, monitor_thread>>
    ELSE [i \in 1..thread_count |-> i] \o <<timer_thread>>

Alive == {t \in ThreadIds : thread[t] \notin {"absent", "done"}}

HeldBy(t) == {l \in Locks : owner[l] = t}

\* the mutexes execute locks to read the final values
final_locks ==
    CASE harness = "cpu_stress" ->
             {"utilization", "throttling_events", "instructions_per_sec"}
      [] harness = "memory_validation" -> {"error_count"}
      [] OTHER -> {"max_temp", "min_temp", "avg_temp", "temp_readings",
                   "warning_events", "critical_events"}

\* the thread::spawn calls: the timer, then the workers or the monitor
spawn_threads ==
    /\ main_at = "spawn"
    /\ thread' = [t \in ThreadIds |->
                      IF t = timer_thread THEN "sleeping"
                      ELSE IF t <= thread_count THEN "check" ELSE "absent"]
    /\ main_at' = "join"
    /\ UNCHANGED <<other_vars, harness, thread_count, joined, running, temp, owner,
                   writes, final_metrics, live_at_read>>

\* the timer thread: thread::sleep(test_duration), then
\* let mut running = running_clone.lock().unwrap()
timer_lock_running ==
    /\ thread[timer_thread] = "sleeping"
    /\ owner["running"] = NoOwner
    /\ owner' = [owner EXCEPT !["running"] = timer_thread]
    /\ thread' = [thread EXCEPT ![timer_thread] = "flag_held"]
    /\ UNCHANGED <<other_vars, harness, thread_count, main_at, joined, running, temp,
                   writes, final_metrics, live_at_read>>

\* a timer thread that ends without clearing the flag
timer_ends_silently ==
    /\ thread[timer_thread] = "flag_held"
    /\ owner' = [owner EXCEPT !["running"] = NoOwner]
    /\ thread' = [thread EXCEPT ![timer_thread] = "done"]
    /\ UNCHANGED <<other_vars, harness, thread_count, main_at, joined, running, temp,
                   writes, final_metrics, live_at_read>>

\* *running = false; the closure ends and drops the guard
timer_fires ==
    /\ thread[timer_thread] = "flag_held"
    /\ running' = FALSE
    /\ owner' = [owner EXCEPT !["running"] = NoOwner]
    /\ thread' = [thread EXCEPT ![timer_thread] = "done"]
    /\ UNCHANGED <<other_vars, harness, thread_count, main_at, joined, temp,
                   writes, final_metrics, live_at_read>>

\* while *running.lock().unwrap(): the guard is a temporary of the
\* condition, taken and dropped before the body runs
worker_check_running(w) ==
    /\ harness \in {"cpu_stress", "memory_validation"}
    /\ thread[w] = "check"
    /\ owner["running"] = NoOwner
    /\ thread' = [thread EXCEPT ![w] =
                      IF ~running THEN "done"
                      ELSE IF harness = "cpu_stress" THEN "work" ELSE "write"]
    /\ UNCHANGED <<other_vars, harness, thread_count, main_at, joined, running, temp,
                   owner, writes, final_metrics, live_at_read>>

\* a cpu worker's workload, and `if start.elapsed().as_secs() >= 1`
worker_work(w, second_elapsed) ==
    /\ thread[w] = "work"
    /\ second_elapsed => writes < MaxWrites
    /\ thread' = [thread EXCEPT ![w] = IF second_elapsed THEN "flush" ELSE "check"]
    /\ UNCHANGED <<other_vars, harness, thread_count, main_at, joined, running, temp,
                   owner, writes, final_metrics, live_at_read>>

\* let mut instr = instructions_per_sec.lock().unwrap(); *instr += ..; both
\* frequencies are read from one snapshot, so the throttling branch is not
\* taken; the guard instr lives to the end of the if block
worker_lock_instructions(w) ==
    /\ thread[w] = "flush"
    /\ owner["instructions_per_sec"] = NoOwner
    /\ owner' = [owner EXCEPT !["instructions_per_sec"] = w]
    /\ writes' = writes + 1
    /\ thread' = [thread EXCEPT ![w] = "lock_util"]
    /\ UNCHANGED <<other_vars, harness, thread_count, main_at, joined, running, temp,
                   final_metrics, live_at_read>>

\* let mut util = utilization.lock().unwrap(); *util = ..
worker_lock_utilization(w) ==
    /\ thread[w] = "lock_util"
    /\ owner["utilization"] = NoOwner
    /\ owner' = [owner EXCEPT !["utilization"] = w]
    /\ thread' = [thread EXCEPT ![w] = "flushed"]
    /\ UNCHANGED <<other_vars, harness, thread_count, main_at, joined, running, temp,
                   writes, final_metrics, live_at_read>>

\* the end of the if block drops the worker's guards
worker_end_flush(w) ==
    /\ thread[w] = "flushed"
    /\ owner' = [l \in Locks |-> IF owner[l] = w THEN NoOwner ELSE owner[l]]
    /\ thread' = [thread EXCEPT ![w] = "check"]
    /\ UNCHANGED <<other_vars, harness, thread_count, main_at, joined, running, temp,
                   writes, final_metrics, live_at_read>>

\* a memory worker's { let mut mem = memory.lock().unwrap(); .. } blocks
worker_lock_memory(w) ==
    /\ thread[w] \in {"write", "verify"}
    /\ owner["memory"] = NoOwner
    /\ owner' = [owner EXCEPT !["memory"] = w]
    /\ thread' = [thread EXCEPT ![w] = IF thread[w] = "write" THEN "writing"
                                       ELSE "verifying"]
    /\ UNCHANGED <<other_vars, harness, thread_count, main_at, joined, running, temp,
                   writes, final_metrics, live_at_read>>

worker_unlock_memory(w) ==
    /\ thread[w] \in {"writing", "verifying"}
    /\ owner' = [owner EXCEPT !["memory"] = NoOwner]
    /\ thread' = [thread EXCEPT ![w] = IF thread[w] = "writing" THEN "verify"
                                       ELSE "check"]
    /\ UNCHANGED <<other_vars, harness, thread_count, main_at, joined, running, temp,
                   writes, final_metrics, live_at_read>>

\* the monitor's while *running.lock().unwrap(), and component.temperature()
monitor_check_running(t) ==
    /\ harness = "thermal_monitor"
    /\ thread[monitor_thread] = "check"
    /\ owner["running"] = NoOwner
    /\ running => writes < MaxWrites
    /\ thread' = [thread EXCEPT ![monitor_thread] = IF running THEN "max" ELSE "done"]
    /\ temp' = IF running THEN t ELSE temp
    /\ UNCHANGED <<other_vars, harness, thread_count, main_at, joined, running, owner,
                   writes, final_metrics, live_at_read>>

\* the monitor takes mutex l and moves on to next_at
monitor_lock(at, l, next_at) ==
    /\ thread[monitor_thread] = at
    /\ owner[l] = NoOwner
    /\ owner' = [owner EXCEPT ![l] = monitor_thread]
    /\ thread' = [thread EXCEPT ![monitor_thread] = next_at]
    /\ UNCHANGED <<other_vars, harness, thread_count, main_at, joined, running, temp,
                   final_metrics, live_at_read>>

\* the end of a block drops the monitor's guards
monitor_end_block(at, next_at) ==
    /\ thread[monitor_thread] = at
    /\ owner' = [l \in Locks |-> IF owner[l] = monitor_thread THEN NoOwner ELSE owner[l]]
    /\ thread' = [thread EXCEPT ![monitor_thread] = next_at]
    /\ UNCHANGED <<other_vars, harness, thread_count, main_at, joined, running, temp,
                   writes, final_metrics, live_at_read>>

\* { let mut max = max_temp.lock().unwrap(); .. }
monitor_lock_max == monitor_lock("max", "max_temp", "max_held") /\ UNCHANGED writes
monitor_end_max == monitor_end_block("max_held", "min")

\* { let mut min = min_temp.lock().unwrap(); .. }
monitor_lock_min == monitor_lock("min", "min_temp", "min_held") /\ UNCHANGED writes
monitor_end_min == monitor_end_block("min_held", "warn")

\* if temp >= thermal_warning_threshold { let mut warnings = .. }
monitor_lock_warning ==
    /\ temp >= thermal_warning_threshold
    /\ monitor_lock("warn", "warning_events", "warn_held")
    /\ UNCHANGED writes

monitor_below_warning ==
    /\ temp < thermal_warning_threshold
    /\ monitor_end_block("warn", "avg")

\* if temp >= thermal_critical_threshold { let mut criticals = .. }, inside
\* the block that holds the guard warnings
monitor_lock_critical ==
    /\ temp >= thermal_critical_threshold
    /\ monitor_lock("warn_held", "critical_events", "critical_held")
    /\ UNCHANGED writes

monitor_end_warning ==
    \/ temp < thermal_critical_threshold /\ monitor_end_block("warn_held", "avg")
    \/ monitor_end_block("critical_held", "avg")

\* if readings > 0 { let mut avg = ..; let mut count = ..; *count = readings }
monitor_lock_avg == monitor_lock("avg", "avg_temp", "avg_held") /\ UNCHANGED writes

monitor_lock_readings ==
    /\ monitor_lock("avg_held", "temp_readings", "count_held")
    /\ writes' = writes + 1

\* the end of the if block, and thread::sleep(thermal_monitor_interval)
monitor_end_avg == monitor_end_block("count_held", "check")

\* a join that returns whether or not the thread has ended
join_without_waiting(t) ==
    /\ joined' = Append(joined, t)
    /\ main_at' = IF harness = "thermal_monitor" /\ t = timer_thread THEN "stop"
                  ELSE IF Len(joined) + 1 = Len(handles) THEN "read" ELSE "join"
    /\ UNCHANGED <<other_vars, harness, thread_count, running, thread, temp, owner,
                   writes, final_metrics, live_at_read>>

\* handle.join(): returns once the thread has ended
join(t) ==
    /\ thread[t] = "done"
    /\ joined' = Append(joined, t)
    /\ main_at' = IF harness = "thermal_monitor" /\ t = timer_thread THEN "stop"
                  ELSE IF Len(joined) + 1 = Len(handles) THEN "read" ELSE "join"
    /\ UNCHANGED <<other_vars, harness, thread_count, running, thread, temp, owner,
                   writes, final_metrics, live_at_read>>

\* for handle in handles { handle.join() }; timer_thread.join() (the thermal
\* unit joins its timer first)
join_next ==
    /\ main_at = "join"
    /\ Len(joined) < Len(handles)
    /\ join(handles[Len(joined) + 1])

\* the thermal unit's block between its two joins:
\* { let mut running_flag = running.lock().unwrap(); ..
stop_lock_running ==
    /\ main_at = "stop"
    /\ owner["running"] = NoOwner
    /\ owner' = [owner EXCEPT !["running"] = main_thread]
    /\ main_at' = "stopping"
    /\ UNCHANGED <<other_vars, harness, thread_count, joined, running, thread, temp,
                   writes, final_metrics, live_at_read>>

\* a block that ends with the guard running_flag still alive
stop_monitor_keeping_guard ==
    /\ main_at = "stopping"
    /\ running' = FALSE
    /\ main_at' = "join"
    /\ UNCHANGED <<other_vars, harness, thread_count, joined, thread, temp, owner,
                   writes, final_metrics, live_at_read>>

\* .. *running_flag = false }: the end of the block drops the guard
stop_monitor ==
    /\ main_at = "stopping"
    /\ running' = FALSE
    /\ owner' = [owner EXCEPT !["running"] = NoOwner]
    /\ main_at' = "join"
    /\ UNCHANGED <<other_vars, harness, thread_count, joined, thread, temp,
                   writes, final_metrics, live_at_read>>

\* let final_.. = *metric.lock().unwrap(), for each metric
read_final_metrics ==
    /\ main_at = "read"
    /\ \A l \in final_locks : owner[l] = NoOwner
    /\ final_metrics' = Some(writes)
    /\ live_at_read' = Alive
    /\ main_at' = "score"
    /\ UNCHANGED <<other_vars, harness, thread_count, joined, running, thread, temp,
                   owner, writes>>

\* scoring and Ok(TestResult { .. })
harness_return ==
    /\ main_at = "score"
    /\ main_at' = "returned"
    /\ UNCHANGED <<other_vars, harness, thread_count, joined, running, thread, temp,
                   owner, writes, final_metrics, live_at_read>>

\* the signal handler sets runner.interrupted while the unit's execute is
\* under way; nothing in a harness reads that flag
harness_interrupt ==
    /\ main_at \in {"join", "stop", "stopping", "read"}
    /\ ~interrupted
    /\ interrupted' = TRUE
    /\ UNCHANGED <<suite_vars, hist_vars, score_vars, top_vars, work_vars, cfg_vars, fs_vars, harness_vars,
                   tests, strategy, pc, idx, cpu_memory_tests, other_tests, stage,
                   produced, returned>>

HarnessNext ==
    \/ harness_interrupt
    \/ spawn_threads
    \/ timer_lock_running
    \/ timer_fires
    \/ \E w \in 1..thread_count : worker_check_running(w)
    \/ \E w \in 1..thread_count, second_elapsed \in BOOLEAN : worker_work(w, second_elapsed)
    \/ \E w \in 1..thread_count : worker_lock_instructions(w)
    \/ \E w \in 1..thread_count : worker_lock_utilization(w)
    \/ \E w \in 1..thread_count : worker_end_flush(w)
    \/ \E w \in 1..thread_count : worker_lock_memory(w)
    \/ \E w \in 1..thread_count : worker_unlock_memory(w)
    \/ \E t \in SensorTemps : monitor_check_running(t)
    \/ monitor_lock_max
    \/ monitor_end_max
    \/ monitor_lock_min
    \/ monitor_end_min
    \/ monitor_lock_warning
    \/ monitor_below_warning
    \/ monitor_lock_critical
    \/ monitor_end_warning
    \/ monitor_lock_avg
    \/ monitor_lock_readings
    \/ monitor_end_avg
    \/ join_next
    \/ stop_lock_running
    \/ stop_monitor
    \/ read_final_metrics
    \/ harness_return

SpecHarness == HarnessInit /\ [][HarnessNext]_vars

\* C15: when a harness-based unit's execute reads its final metric values
\* and when it returns, the timer and every worker or monitor thread it
\* spawned have ended: the read comes after all the joins, sees every
\* update made, and no spawned thread is left running.
C15_ThreadsJoinedBeforeRead ==
    main_at \in {"score", "returned"}
        => /\ Alive = {}
           /\ live_at_read = {}
           /\ final_metrics = Some(writes)
           /\ Len(joined) = Len(handles)

C15_Witness ==
    /\ main_at = "returned"
    /\ harness = "cpu_stress"
    /\ thread_count = MaxThreads
    /\ writes > 0

C15_WitnessThermal ==
    /\ main_at = "returned"
    /\ harness = "thermal_monitor"
    /\ writes > 0

\* C16: in every workload harness a worker thread never holds the locks of
\* more than one metric at a time.
C16_OneMetricLockAtATime ==
    \A t \in ThreadIds : Cardinality(HeldBy(t) \cap MetricLocks) <= 1

\* ------------------------------------------ fair scheduling of the threads
\* the steps of worker w, of the monitor and of execute's own thread
WorkerStep(w) ==
    /\ w <= thread_count
    /\ \/ worker_check_running(w)
       \/ \E second_elapsed \in BOOLEAN : worker_work(w, second_elapsed)
       \/ worker_lock_instructions(w)
       \/ worker_lock_utilization(w)
       \/ worker_end_flush(w)
       \/ worker_lock_memory(w)
       \/ worker_unlock_memory(w)

MonitorStep ==
    \/ \E t \in SensorTemps : monitor_check_running(t)
    \/ monitor_lock_max \/ monitor_end_max \/ monitor_lock_min \/ monitor_end_min
    \/ monitor_lock_warning \/ monitor_below_warning \/ monitor_lock_critical
    \/ monitor_end_warning \/ monitor_lock_avg \/ monitor_lock_readings
    \/ monitor_end_avg

MainStep ==
    \/ spawn_threads \/ join_next \/ stop_lock_running \/ stop_monitor
    \/ read_final_metrics \/ harness_return

TimerStep == timer_lock_running \/ timer_fires

\* every thread that can take a step eventually takes one
FairScheduling ==
    /\ WF_vars(TimerStep)
    /\ \A w \in 1..MaxThreads : WF_vars(WorkerStep(w))
    /\ WF_vars(MonitorStep)
    /\ WF_vars(MainStep)

SpecHarnessFair == HarnessInit /\ [][HarnessNext]_vars /\ FairScheduling

\* C21: under fair scheduling every harness-based execute terminates: the
\* timer clears the flag, every worker sees it at its next check and ends,
\* the joins complete and execute returns.
C21_ExecuteTerminates ==
    /\ <>(~running)
    /\ <>(main_at = "returned" /\ Alive = {})

C21_Witness ==
    /\ main_at = "returned"
    /\ harness = "memory_validation"
    /\ thread_count = MaxThreads
    /\ ~running
    /\ Alive = {}

\* ------------------------------------- the storage unit and the file system
\* What a call leaves behind is a set of <<kind, directory>>: the test file
\* burnin_storage_test.tmp in a test directory, the directory
\* burnin_metadata_test beside it, and is_writable's .burnin_write_test.
\* "detected" is the directory detect_test_paths finds, "custom" a
\* directory of config.storage_test_paths that is another one.
Envs ==
    [custom : {"none", "same", "other"},   \* config.storage_test_paths
     detect : {"dir", "empty", "err"},     \* what detect_test_paths returns
     removable : BOOLEAN]                  \* whether fs::remove_file succeeds

\* where execute can return early: not at all, at File::create of the
\* test file, in a read/write stage, at create_dir_all, at a File::create
\* in the metadata directory, at remove_dir_all
FailPoints == {"none", "create", "io", "mkdir", "meta_file", "rmdir"}

\* detect_test_paths: is_writable creates and removes .burnin_write_test
detect_test_paths(f, e) ==
    [files  |-> IF e.detect = "dir" /\ ~e.removable
                THEN f \cup {<<"write_test", "detected">>} ELSE f,
     result |-> IF e.detect = "err" THEN "Err(IoError)" ELSE "Ok",
     paths  |-> IF e.detect = "dir" THEN <<"detected">> ELSE <<>>]

\* StorageIoTest::execute on the file system, returning early at fail_at
storage_fs_execute(f, e, fail_at) ==
    LET d  == detect_test_paths(f, e)
        f0 == IF e.custom = "none" THEN d.files ELSE f
        test_paths == IF e.custom = "none" THEN d.paths
                      ELSE IF e.custom = "same" THEN <<"detected">> ELSE <<"custom">>
        p  == test_paths[1]
        f1 == f0 \cup {<<"test_file", p>>}
        f2 == f1 \cup {<<"metadata_dir", p>>}
        f3 == f1 \ {<<"metadata_dir", p>>}
    IN  IF e.custom = "none" /\ d.result # "Ok"
        THEN [files |-> f0, result |-> d.result]
        ELSE IF test_paths = <<>>
        THEN [files |-> f0, result |-> "Err(InsufficientResources)"]
        ELSE CASE fail_at = "create" -> [files |-> f0, result |-> "Err(IoError)"]
               [] fail_at = "io" -> [files |-> f1, result |-> "Err(IoError)"]
               [] fail_at = "mkdir" -> [files |-> f1, result |-> "Err(IoError)"]
               [] fail_at \in {"meta_file", "rmdir"} ->
                      [files |-> f2, result |-> "Err(IoError)"]
               [] OTHER ->
                      [files |-> IF e.removable THEN f3 \ {<<"test_file", p>>} ELSE f3,
                       result |-> "Ok"]

\* a cleanup that reports a test file it does not find
storage_fs_cleanup_strict(f, e) ==
    LET d == detect_test_paths(f, e)
    IN  IF d.result # "Ok" THEN [files |-> d.files, result |-> d.result]
        ELSE IF d.paths # <<>> /\ <<"test_file", "detected">> \notin d.files
        THEN [files |-> d.files, result |-> "Err(IoError)"]
        ELSE [files |-> IF d.paths # <<>> /\ e.removable
                        THEN d.files \ {<<"test_file", "detected">>} ELSE d.files,
              result |-> "Ok"]

\* StorageIoTest::cleanup: the test file of each detected path, if it exists
storage_fs_cleanup(f, e) ==
    LET d == detect_test_paths(f, e)
    IN  IF d.result # "Ok" THEN [files |-> d.files, result |-> d.result]
        ELSE [files |-> IF d.paths # <<>> /\ e.removable
                        THEN d.files \ {<<"test_file", "detected">>} ELSE d.files,
              result |-> "Ok"]

\* cleanup of unit u: the other four units' cleanup is Ok(()) and no more
unit_cleanup(u, f, e) ==
    IF u = 3 THEN storage_fs_cleanup(f, e) ELSE [files |-> f, result |-> "Ok"]

StorageInit ==
    /\ env \in Envs
    /\ files = {}
    /\ last_call = NoCall
    /\ prev_call = NoCall
    /\ ConfigIdle
    /\ WorkIdle
    /\ HarnessIdle
    /\ registered = <<>>
    /\ tests = <<>>
    /\ interrupted = FALSE
    /\ strategy = "none"
    /\ pc = "idle"
    /\ idx = 0
    /\ cpu_memory_tests = <<>>
    /\ other_tests = <<>>
    /\ stage = [u \in Units |-> "idle"]
    /\ produced = [u \in Units |-> NoResult]
    /\ returned = "none"
    /\ checked = [u \in Units |-> "no"]
    /\ execs = [u \in Units |-> 0]
    /\ cleanups = [u \in Units |-> 0]
    /\ ran_in = [u \in Units |-> "none"]
    /\ outcome = [u \in Units |-> NoOutcome]
    /\ result_units = <<>>
    /\ warnings = 0
    /\ cleanup_errs = 0
    /\ reports = NoReports
    /\ int_when = <<"never">>
    /\ exec_result = NoOutcome
    /\ handler = "none"
    /\ exit_code = None
    /\ metrics = NoMetrics
    /\ config = TestConfig_default
    /\ suite = TestSuite_new
    /\ overflow_checks = FALSE
    /\ panicked = FALSE
    /\ fin_calls = 0
    /\ clean_fins = 0

\* a call of the storage unit's execute
storage_call_execute(fail_at) ==
    /\ LET x == storage_fs_execute(files, env, fail_at)
       IN  /\ files' = x.files
           /\ last_call' = [op |-> "execute", unit |-> 3, result |-> x.result,
                            before |-> files]
    /\ prev_call' = last_call
    /\ UNCHANGED <<suite_vars, run_vars, hist_vars, score_vars, top_vars, harness_vars, work_vars, cfg_vars, env>>

\* a call of unit u's cleanup
call_cleanup(u) ==
    /\ LET x == unit_cleanup(u, files, env)
       IN  /\ files' = x.files
           /\ last_call' = [op |-> "cleanup", unit |-> u, result |-> x.result,
                            before |-> files]
    /\ prev_call' = last_call
    /\ UNCHANGED <<suite_vars, run_vars, hist_vars, score_vars, top_vars, harness_vars, work_vars, cfg_vars, env>>

StorageNext ==
    \/ \E fail_at \in FailPoints : storage_call_execute(fail_at)
    \/ \E u \in Units : call_cleanup(u)

SpecStorage == StorageInit /\ [][StorageNext]_vars

\* C22: cleanup of every unit is idempotent and safe in any state: before
\* any execute, after a failed execute or after another cleanup, a second
\* cleanup leaves what the first left and returns what it returned, and a
\* cleanup returns Err only when detect_test_paths fails, never because
\* there is nothing to remove.
C22_CleanupIdempotent ==
    /\ \A u \in Units :
           LET c1 == unit_cleanup(u, files, env)
               c2 == unit_cleanup(u, c1.files, env)
           IN  /\ c2 = c1
               /\ c1.result # "Ok" => u = 3 /\ env.detect = "err"
    /\ (last_call.op = "cleanup" /\ prev_call.op = "cleanup"
            /\ last_call.unit = prev_call.unit)
           => files = last_call.before /\ last_call.result = prev_call.result

C22_Witness ==
    /\ prev_call.op = "cleanup" /\ prev_call.unit = 3
    /\ last_call.op = "cleanup" /\ last_call.unit = 3
    /\ <<"test_file", "detected">> \in prev_call.before
    /\ <<"test_file", "detected">> \notin files
    /\ last_call.result = "Ok"

C22_WitnessBeforeExecute ==
    /\ prev_call.op = "none"
    /\ last_call.op = "cleanup" /\ last_call.unit = 3
    /\ last_call.result = "Ok"
    /\ files = {}

\* C23: after the storage unit's execute followed by its cleanup, on a file
\* system that lets files be removed, nothing that execute created remains,
\* whether execute returned Ok or Err and whatever the test path was.
C23_NothingRemains ==
    (/\ prev_call.op = "execute"
     /\ last_call.op = "cleanup" /\ last_call.unit = 3
     /\ env.removable)
        => files = {}

StartsChunk == \E t \in 1..MaxThreads : thread[t] = "check" /\ thread'[t] \in {"work", "write", "max"}

\* C25: once the interrupt flag is set while a unit is executing, each
\* worker in flight ends the chunk it is in and stops: no worker starts a
\* further chunk.
C25_NoChunkAfterInterrupt == [][interrupted => ~StartsChunk]_vars

\* what the code has: a worker starts a chunk only while the unit's own flag
\* running is set, whatever the interrupt flag is
C25_ChunksFollowRunning == [][StartsChunk => running]_vars

\* ------------------------------------- claims about the course of one run
Executed(u) == execs[u] > 0

\* C26: in every run the reporter is called at fixed points: report_start
\* once and before any report_test_start; for each executed unit
\* report_test_start with the call of its execute and report_test_result
\* once, after execute returned; report_suite_result once, after finalize
\* and after every report_test_result, and nothing is reported after it.
C26_ReporterOrder ==
    /\ [](/\ reports.start <= 1
          /\ reports.suite <= 1
          /\ strategy = "none" => reports = NoReports
          /\ \A u \in Units :
                 /\ reports.test_start[u] = execs[u]
                 /\ reports.test_start[u] <= reports.start
                 /\ reports.test_result[u] = (IF outcome[u] # NoOutcome THEN 1 ELSE 0)
                 /\ reports.test_result[u] <= reports.test_start[u]
          /\ reports.suite = 1
                 => /\ fin_calls = 1
                    /\ \A u \in Units : reports.test_result[u] = reports.test_start[u]
          /\ RunReturnedOk => reports.start = 1 /\ reports.suite = 1)
    /\ [][reports.suite = 1 => reports' = reports]_vars

C26_Witness ==
    /\ RunReturnedOk
    /\ strategy = "parallel"
    /\ reports.start = 1 /\ reports.suite = 1
    /\ Cardinality({u \in Units : reports.test_result[u] = 1}) >= 2
    /\ \E u \in Units : checked[u] = "set"

\* C28: within one run the suite is created empty at the start, changes
\* only by results being appended and by one finalize that comes after the
\* last append and before the report and the return, also when the
\* interrupt flag cuts the run short.
C28_SuiteLifecycle ==
    /\ [](/\ fin_calls <= 1
          /\ pc \in {"entered", "idle"} => suite = TestSuite_new
          /\ (fin_calls = 0 /\ pc # "panic") => suite.overall_status = "Pending"
          /\ pc = "report" => fin_calls = 1
          /\ RunReturnedOk => fin_calls = 1 /\ suite = finalize(suite).suite)
    /\ [][\/ suite' = suite
          \/ /\ fin_calls = 0 /\ fin_calls' = 0
             /\ suite'.overall_score = suite.overall_score
             /\ suite'.overall_status = suite.overall_status
             /\ Len(suite'.results) > Len(suite.results)
             /\ SubSeq(suite'.results, 1, Len(suite.results)) = suite.results
          \/ /\ pc = "finalize" /\ fin_calls = 0 /\ fin_calls' = 1
             /\ suite'.results = suite.results]_vars

C28_Witness ==
    /\ RunReturnedOk
    /\ interrupted
    /\ fin_calls = 1
    /\ Len(suite.results) > 0
    /\ Len(suite.results) < Len(registered)

\* C27: Pending and Running never appear in what a run gives out: every
\* recorded result has status Completed, Failed or Skipped, and the suite's
\* overall_status is Pending until finalize and Completed, Failed or Partial
\* after it.
C27_TerminalStatuses ==
    /\ \A i \in 1..Len(suite.results) :
           suite.results[i].status \in {"Completed", "Failed", "Skipped", "Partial"}
    /\ ExecuteGaveResult
           => exec_result.result.status \in {"Completed", "Failed", "Skipped", "Partial"}
    /\ fin_calls = 0 => suite.overall_status = "Pending"
    /\ fin_calls > 0 => suite.overall_status \in {"Completed", "Failed", "Partial"}

C27_Witness ==
    /\ fin_calls > 0
    /\ Len(suite.results) = 1
    /\ suite.results[1].status = "Skipped"
    /\ suite.overall_status = "Completed"

\* --------------------------------- the duration of a run (core/config.rs)
\* A Duration, kept to the millisecond: the one unit below a second that the
\* strings below can spell is "ms".
Duration_new(secs, millis) == [secs |-> secs + millis \div 1000, millis |-> millis % 1000]

Duration_from_secs(secs) == Duration_new(secs, 0)

\* `a < b` and `a > b` on Durations
Duration_lt(a, b) == a.secs < b.secs \/ (a.secs = b.secs /\ a.millis < b.millis)

Duration_gt(a, b) == Duration_lt(b, a)

\* the longest text given as a duration, in pieces
MaxTokens == 4

\* The pieces the texts are made of: digits and a two-digit number, the unit
\* letters, a blank and a character that is neither.
DurationTokens ==
    { <<"1">>, <<"7">>, <<"8">>, <<"3", "0">>,
      <<"s">>, <<"m">>, <<"d">>, <<"w">>, <<" ">>, <<"-">> }

RECURSIVE Concat(_)
Concat(ts) == IF ts = <<>> THEN <<>> ELSE Head(ts) \o Concat(Tail(ts))

DurationStrings ==
    { Concat(ts) : ts \in UNION { [1..k -> DurationTokens] : k \in 0..MaxTokens } }

DigitValue ==
    [c \in {"0", "1", "2", "3", "4", "5", "6", "7", "8", "9"} |->
        CASE c = "0" -> 0 [] c = "1" -> 1 [] c = "2" -> 2 [] c = "3" -> 3
          [] c = "4" -> 4 [] c = "5" -> 5 [] c = "6" -> 6 [] c = "7" -> 7
          [] c = "8" -> 8 [] c = "9" -> 9]

is_digit(c) == c \in DOMAIN DigitValue

is_whitespace(c) == c = " "

\* 'a'..='z' | 'A'..='Z', as far as the texts go
is_letter(c) == c \in {"s", "m", "h", "d", "w"}

\* humantime counts in u64, which no text of these lengths overflows. The
\* model's integers are narrower, so a count from Saturated up is kept as
\* Saturated: in every unit that is more than 7 days, and sums only grow.
Saturated == 1000000000

sat_add(a, b) == IF a + b > Saturated THEN Saturated ELSE a + b

sat_mul(n, k) == IF n > Saturated \div k THEN Saturated ELSE n * k

push_digit(n, c) ==
    IF n >= Saturated \div 10 THEN Saturated ELSE n * 10 + DigitValue[c]

ParseErr(e) == [ok |-> FALSE, error |-> e]

\* Parser::parse_first_char from position p: blanks are passed over
RECURSIVE parse_first_char(_, _)
parse_first_char(s, p) ==
    IF p > Len(s) THEN [kind |-> "none"]
    ELSE IF is_digit(s[p]) THEN [kind |-> "digit", n |-> DigitValue[s[p]], p |-> p + 1]
    ELSE IF is_whitespace(s[p]) THEN parse_first_char(s, p + 1)
    ELSE [kind |-> "err"]

\* Parser::parse_unit: the number n in the unit named, added to the sum
parse_unit(n, unit, current) ==
    LET known == unit \in {<<"m", "s">>, <<"s">>, <<"m">>, <<"h">>, <<"d">>, <<"w">>}
        secs == CASE unit = <<"s">> -> n
                  [] unit = <<"m">> -> sat_mul(n, 60)
                  [] unit = <<"h">> -> sat_mul(n, 3600)
                  [] unit = <<"d">> -> sat_mul(n, 86400)
                  [] unit = <<"w">> -> sat_mul(n, 86400 * 7)
                  [] OTHER -> 0
        millis == current.millis + (IF unit = <<"m", "s">> THEN n ELSE 0)
        carried == IF millis > 1000 THEN sat_add(secs, millis \div 1000) ELSE secs
    IN  IF ~known THEN ParseErr("UnknownUnit")
        ELSE [ok |-> TRUE,
              current |-> [secs |-> sat_add(current.secs, carried),
                           millis |-> IF millis > 1000 THEN millis % 1000 ELSE millis]]

\* the first inner loop of Parser::parse: the rest of the number, up to the
\* first letter of its unit
RECURSIVE scan_number(_, _, _)
scan_number(s, p, n) ==
    IF p > Len(s) THEN [kind |-> "end", n |-> n, start |-> p, p |-> p]
    ELSE IF is_digit(s[p]) THEN scan_number(s, p + 1, push_digit(n, s[p]))
    ELSE IF is_whitespace(s[p]) THEN scan_number(s, p + 1, n)
    ELSE IF is_letter(s[p]) THEN [kind |-> "unit", n |-> n, start |-> p, p |-> p + 1]
    ELSE [kind |-> "err"]

\* the second inner loop: the rest of the unit, up to a digit, a blank or the end
RECURSIVE scan_unit(_, _)
scan_unit(s, p) ==
    IF p > Len(s) THEN [kind |-> "end", stop |-> p, p |-> p]
    ELSE IF is_digit(s[p]) THEN [kind |-> "digit", stop |-> p, n |-> DigitValue[s[p]], p |-> p + 1]
    ELSE IF is_whitespace(s[p]) THEN [kind |-> "space", stop |-> p, p |-> p + 1]
    ELSE IF is_letter(s[p]) THEN scan_unit(s, p + 1)
    ELSE [kind |-> "err"]

\* the outer loop of Parser::parse, entered with the first digit read
RECURSIVE Parser_parse(_, _, _, _)
Parser_parse(s, p, n, current) ==
    LET num == scan_number(s, p, n)
    IN  IF num.kind = "err" THEN ParseErr("InvalidCharacter")
        ELSE
        LET un == IF num.kind = "end" THEN [kind |-> "end", stop |-> num.p, p |-> num.p]
                  ELSE scan_unit(s, num.p)
        IN  IF un.kind = "err" THEN ParseErr("InvalidCharacter")
            ELSE
            LET pu == parse_unit(num.n, SubSeq(s, num.start, un.stop - 1), current)
            IN  IF ~pu.ok THEN pu
                ELSE IF un.kind = "digit" THEN Parser_parse(s, un.p, un.n, pu.current)
                ELSE
                LET first == parse_first_char(s, un.p)
                IN  IF first.kind = "err" THEN ParseErr("NumberExpected")
                    ELSE IF first.kind = "none"
                    THEN [ok |-> TRUE,
                          duration |-> Duration_new(pu.current.secs, pu.current.millis)]
                    ELSE Parser_parse(s, first.p, first.n, pu.current)

\* humantime::parse_duration
humantime_parse_duration(s) ==
    LET first == parse_first_char(s, 1)
    IN  IF first.kind = "err" THEN ParseErr("NumberExpected")
        ELSE IF first.kind = "none" THEN ParseErr("Empty")
        ELSE Parser_parse(s, first.p, first.n, [secs |-> 0, millis |-> 0])

\* parse_duration with the two limits taken as exclusive
parse_duration_exclusive(duration_str_) ==
    LET parsed == humantime_parse_duration(duration_str_)
    IN  IF ~parsed.ok THEN ParseErr("Invalid duration format")
        ELSE IF ~Duration_gt(parsed.duration, Duration_from_secs(60))
        THEN ParseErr("Duration must be at least 1 minute")
        ELSE IF ~Duration_lt(parsed.duration, Duration_from_secs(7 * 24 * 60 * 60))
        THEN ParseErr("Duration cannot exceed 7 days")
        ELSE [ok |-> TRUE, duration |-> parsed.duration]

\* TestConfig::parse_duration
parse_duration(duration_str_) ==
    LET parsed == humantime_parse_duration(duration_str_)
    IN  IF ~parsed.ok THEN ParseErr("Invalid duration format")
        ELSE IF Duration_lt(parsed.duration, Duration_from_secs(60))
        THEN ParseErr("Duration must be at least 1 minute")
        ELSE IF Duration_gt(parsed.duration, Duration_from_secs(7 * 24 * 60 * 60))
        THEN ParseErr("Duration cannot exceed 7 days")
        ELSE [ok |-> TRUE, duration |-> parsed.duration]

\* the duration each preset assigns
apply_preset_quick == Duration_from_secs(15 * 60)

apply_preset_standard == Duration_from_secs(2 * 60 * 60)

apply_preset_full == Duration_from_secs(8 * 60 * 60)

\* a text is given, nothing has read it yet
ConfigInit ==
    /\ duration_str \in DurationStrings
    /\ parse_result = None
    /\ command = "none"
    /\ config_duration = Duration_default
    /\ WorkIdle
    /\ FsIdle
    /\ HarnessIdle
    /\ registered = <<>>
    /\ tests = <<>>
    /\ interrupted = FALSE
    /\ strategy = "none"
    /\ pc = "idle"
    /\ idx = 0
    /\ cpu_memory_tests = <<>>
    /\ other_tests = <<>>
    /\ stage = [u \in Units |-> "idle"]
    /\ produced = [u \in Units |-> NoResult]
    /\ returned = "none"
    /\ checked = [u \in Units |-> "no"]
    /\ execs = [u \in Units |-> 0]
    /\ cleanups = [u \in Units |-> 0]
    /\ ran_in = [u \in Units |-> "none"]
    /\ outcome = [u \in Units |-> NoOutcome]
    /\ result_units = <<>>
    /\ warnings = 0
    /\ cleanup_errs = 0
    /\ reports = NoReports
    /\ int_when = <<"never">>
    /\ exec_result = NoOutcome
    /\ handler = "none"
    /\ exit_code = None
    /\ metrics = NoMetrics
    /\ config = TestConfig_default
    /\ suite = TestSuite_new
    /\ overflow_checks = FALSE
    /\ panicked = FALSE
    /\ fin_calls = 0
    /\ clean_fins = 0

rest_vars == <<suite_vars, run_vars, hist_vars, score_vars, top_vars, harness_vars, work_vars, fs_vars>>

\* a call of TestConfig::parse_duration on the text
call_parse_duration ==
    /\ command = "none"
    /\ parse_result = None
    /\ parse_result' = Some(parse_duration(duration_str))
    /\ UNCHANGED <<rest_vars, duration_str, command, config_duration>>

\* main's arm for one of the preset subcommands, which take no duration
main_preset(cmd) ==
    /\ command = "none"
    /\ parse_result = None
    /\ duration_str = <<>>
    /\ command' = cmd
    /\ config_duration' = CASE cmd = "quick" -> apply_preset_quick
                            [] cmd = "standard" -> apply_preset_standard
                            [] cmd = "full" -> apply_preset_full
    /\ UNCHANGED <<rest_vars, duration_str, parse_result>>

\* main's arm for `custom`: humantime::parse_duration on the text, the Err
\* returned from main with `?`
main_custom ==
    /\ command = "none"
    /\ parse_result = None
    /\ LET parsed == humantime_parse_duration(duration_str)
       IN  /\ command' = IF parsed.ok THEN "custom" ELSE "custom_failed"
           /\ config_duration' = IF parsed.ok THEN parsed.duration ELSE config_duration
    /\ UNCHANGED <<rest_vars, duration_str, parse_result>>

ConfigNext ==
    \/ call_parse_duration
    \/ \E cmd \in {"quick", "standard", "full"} : main_preset(cmd)
    \/ main_custom

SpecConfig == ConfigInit /\ [][ConfigNext]_vars

\* the value of a Duration lies between 1 minute and 7 days, both included
WithinLimits(d) ==
    /\ d.secs >= 60
    /\ d.secs < 7 * 86400 \/ (d.secs = 7 * 86400 /\ d.millis = 0)

\* C29: TestConfig::parse_duration returns Ok(d) exactly for the well-formed
\* texts whose value d is between 1 minute and 7 days, both included, and
\* an error for every other text: malformed, shorter than 1 minute ("30s"),
\* longer than 7 days ("8d").
C29_ParseDurationLimits ==
    parse_result # None =>
        LET r == parse_result[1]
            parsed == humantime_parse_duration(duration_str)
        IN  /\ r.ok <=> (parsed.ok /\ WithinLimits(parsed.duration))
            /\ r.ok => r.duration = parsed.duration
            /\ duration_str \in {<<"3", "0", "s">>, <<"8", "d">>, <<"8", "w">>} => ~r.ok
            /\ duration_str \in {<<>>, <<"1">>, <<"d">>, <<"-", "1", "m">>, <<"1", "d", "-">>,
                                 <<"1", "s", "d">>, <<"1", "m", "m">>} => ~r.ok
            /\ duration_str = <<"1", "m">> => r.ok /\ r.duration = Duration_from_secs(60)
            /\ duration_str = <<"7", "d">> => r.ok /\ r.duration = Duration_from_secs(604800)
            /\ duration_str = <<"1", "w">> => r.ok /\ r.duration = Duration_from_secs(604800)
            /\ duration_str = <<"3", "0", "m">> => r.ok /\ r.duration = Duration_from_secs(1800)
            /\ duration_str \in {<<"7", "d", "1", "s">>, <<"1", "w", "1", "s">>} => ~r.ok

C29_Witness ==
    /\ parse_result # None
    /\ parse_result[1].ok
    /\ parse_result[1].duration = Duration_from_secs(7 * 86400)
    /\ duration_str = <<"7", "d">>

C29_WitnessTooLong ==
    /\ parse_result # None
    /\ duration_str = <<"7", "d", "1", "s">>
    /\ parse_result[1] = ParseErr("Duration cannot exceed 7 days")

C29_WitnessTooShort ==
    /\ parse_result # None
    /\ duration_str = <<"3", "0", "s">>
    /\ parse_result[1] = ParseErr("Duration must be at least 1 minute")

C29_WitnessMalformed ==
    /\ parse_result # None
    /\ duration_str = <<"1", "d", "-">>
    /\ parse_result[1] = ParseErr("Invalid duration format")

\* C30: the quick subcommand runs the units with a configured duration
\* between 1 and 2 minutes.
C30_QuickRunsOneToTwoMinutes ==
    command = "quick" =>
        /\ ~Duration_lt(config_duration, Duration_from_secs(60))
        /\ ~Duration_gt(config_duration, Duration_from_secs(120))

\* what the code has: quick configures the 15 minutes of the stress preset
C30_QuickRunsFifteenMinutes ==
    command = "quick" => config_duration = Duration_from_secs(15 * 60)

\* ------------------------------------- claims about the two strategies
InFlight(u) == stage[u] \in {"exec", "post"}

\* C31: in execute_parallel the group is a fork-join: no other unit has its
\* execute started until every unit of the cpu/memory group has finished its
\* execute and its cleanup (or was declined), and the other units then run
\* strictly one at a time.
C31_GroupIsForkJoin ==
    /\ \A o \in Units :
           ran_in[o] = "other" =>
               /\ pc \notin {"par_group", "entered", "idle"}
               /\ \A i \in 1..Len(cpu_memory_tests) :
                      LET g == cpu_memory_tests[i]
                      IN  /\ stage[g] \in {"declined", "done"}
                          /\ execs[g] > 0 => (Returned(g) /\ cleanups[g] = 1)
    /\ Cardinality({o \in Units : ran_in[o] = "other" /\ InFlight(o)}) <= 1
    /\ \A o \in Units :
           (ran_in[o] = "other" /\ InFlight(o)) => o = other_tests[idx]

C31_Witness ==
    /\ strategy = "parallel"
    /\ Cardinality({g \in Units : ran_in[g] = "group" /\ stage[g] = "done"}) >= 2
    /\ \E o \in Units : ran_in[o] = "other" /\ stage[o] = "exec"

\* C32: in execute_sequential with the flag never set, the returned suite
\* holds exactly one result per registered unit, in registration order,
\* whatever the units' execute and cleanup calls returned: a failing unit
\* never keeps a later unit from running.
C32_OneResultPerUnitInOrder ==
    (RunReturnedOk /\ strategy = "sequential" /\ ~interrupted) =>
        /\ result_units = registered
        /\ Len(suite.results) = Len(registered)
        /\ \A i \in 1..Len(registered) :
               /\ suite.results[i] = produced[registered[i]]
               /\ execs[registered[i]] = 1

C32_Witness ==
    /\ RunReturnedOk
    /\ strategy = "sequential"
    /\ ~interrupted
    /\ Len(registered) = MaxUnits
    /\ ReturnedErr(registered[1])
    /\ cleanup_errs > 0
    /\ result_units = registered

\* C38: running a strategy does not consume the runner's units: after
\* execute_parallel, as after execute_sequential, the runner still holds the
\* units it was given.
C38_UnitsStayRegistered ==
    strategy # "none" => tests = registered

\* what the code has: execute_sequential keeps the units, execute_parallel
\* leaves the runner without any
C38_ParallelDrainsUnits ==
    /\ strategy = "sequential" => tests = registered
    /\ strategy = "parallel" => tests = <<>>

\* ------------------------------------------- claims about the arithmetic
\* min(k * n, cap), in the integers
CappedPenalty(k, n, cap) == U8(Min(k * n, cap))

\* C36: the count-based penalties equal min(k * n, cap) for every count n
\* (thermal critical events: k = 10, cap = 50; storage errors: k = 5,
\* cap = 50): the conversion of the count to 8 bits and its multiplication
\* never truncate or wrap.
C36_CountPenaltiesExact ==
    ExecuteEnded =>
        /\ (metrics.unit = 5 /\ metrics.thermal_monitoring /\ metrics.sensors > 0)
               => thermal_critical_penalty(metrics)
                      = CappedPenalty(10, metrics.critical_events, 50)
        /\ (metrics.unit = 3 /\ metrics.paths > 0)
               => storage_error_penalty(metrics)
                      = CappedPenalty(5, storage_error_count(metrics), 50)

\* what the code has: the penalties are exact as long as the product fits
\* eight bits, that is below 26 critical events and below 52 storage errors
C36_ExactWhileProductFits ==
    ExecuteEnded =>
        /\ (metrics.unit = 5 /\ metrics.critical_events * 10 <= U8Max)
               => thermal_critical_penalty(metrics)
                      = CappedPenalty(10, metrics.critical_events, 50)
        /\ (metrics.unit = 3 /\ storage_error_count(metrics) * 5 <= U8Max)
               => storage_error_penalty(metrics)
                      = CappedPenalty(5, storage_error_count(metrics), 50)

MemberScores == {suite.results[i].score : i \in 1..Len(suite.results)}

\* C37: for a suite with at least one result, the overall_score computed by
\* finalize lies between the least and the greatest of the member results'
\* scores, for all member scores and all whole-second durations.
C37_ScoreBetweenMembers ==
    (Finalized /\ suite.results # <<>>) =>
        /\ \E lo \in MemberScores : lo <= suite.overall_score
        /\ \E hi \in MemberScores : suite.overall_score <= hi

\* what the code has: the score lies between the members' scores when every
\* duration stays below the one whose product with 100 leaves 32 bits
C37_BetweenMembersForShortRuns ==
    (Finalized /\ suite.results # <<>>
         /\ \A i \in 1..Len(suite.results) : suite.results[i].duration < SecsBig) =>
        /\ \E lo \in MemberScores : lo <= suite.overall_score
        /\ \E hi \in MemberScores : suite.overall_score <= hi

\* ------------------------------------------ claims about the harnesses
\* the indices of the buffer that worker w reads and writes
Slice(w) == {i \in 0..(size - 1) : range_start(w - 1) <= i /\ i < range_end(w - 1)}

Accessing == {w \in 1..thread_count : thread[w] \in {"writing", "verifying"}}

\* C33: in the memory unit's multi-threaded stage with N workers and a
\* buffer of any size the workers' index ranges [start, end) are pairwise
\* disjoint and together make up [0, size), also when size is no multiple
\* of N or less than N; and at most one worker accesses the buffer at a time.
C33_DisjointSlicesOneAtATime ==
    harness = "memory_validation" =>
        /\ \A w \in 1..thread_count :
               /\ 0 <= range_start(w - 1)
               /\ range_start(w - 1) <= range_end(w - 1)
               /\ range_end(w - 1) <= size
        /\ \A w, v \in 1..thread_count : w # v => Slice(w) \cap Slice(v) = {}
        /\ UNION {Slice(w) : w \in 1..thread_count} = 0..(size - 1)
        /\ Cardinality(Accessing) <= 1
        /\ \A w \in Accessing : owner["memory"] = w

C33_Witness ==
    /\ harness = "memory_validation"
    /\ thread_count = MaxThreads
    /\ size > thread_count
    /\ size % thread_count # 0
    /\ thread[1] = "writing"
    /\ thread[MaxThreads] = "verify"

C33_WitnessSmallBuffer ==
    /\ harness = "memory_validation"
    /\ thread_count = MaxThreads
    /\ size > 0
    /\ size < thread_count
    /\ thread[MaxThreads] = "verifying"

\* --------------------------------------------- claims about the lock order
AllThreads == ThreadIds \cup {main_thread}

\* the mutex a thread asks for at its next step, if any
Requests(t) ==
    IF t = main_thread
    THEN CASE main_at = "stop" -> {"running"}
           [] main_at = "read" -> final_locks
           [] OTHER -> {}
    ELSE IF t = timer_thread
    THEN IF thread[t] = "sleeping" THEN {"running"} ELSE {}
    ELSE IF harness = "thermal_monitor"
    THEN CASE thread[t] = "check" -> {"running"}
           [] thread[t] = "max" -> {"max_temp"}
           [] thread[t] = "min" -> {"min_temp"}
           [] thread[t] = "warn" /\ temp >= thermal_warning_threshold
                  -> {"warning_events"}
           [] thread[t] = "warn_held" /\ temp >= thermal_critical_threshold
                  -> {"critical_events"}
           [] thread[t] = "avg" -> {"avg_temp"}
           [] thread[t] = "avg_held" -> {"temp_readings"}
           [] OTHER -> {}
    ELSE CASE thread[t] = "check" -> {"running"}
           [] thread[t] = "flush" -> {"instructions_per_sec"}
           [] thread[t] = "lock_util" -> {"utilization"}
           [] thread[t] \in {"write", "verify"} -> {"memory"}
           [] OTHER -> {}

\* the threads t cannot go on without: the holders of the mutex it asks
\* for, and for the main thread the thread it is joining
WaitsFor(t) ==
    ({owner[l] : l \in Requests(t)} \ {NoOwner})
        \cup (IF /\ t = main_thread
                 /\ main_at = "join"
                 /\ Len(joined) < Len(handles)
                 /\ thread[handles[Len(joined) + 1]] # "done"
              THEN {handles[Len(joined) + 1]}
              ELSE {})

\* a set of threads each of which waits for another one of the set
Deadlocked(S) == S # {} /\ \A t \in S : WaitsFor(t) \cap S # {}

\* mutex b is asked for by a thread that holds mutex a
Nested(a, b) == \E t \in AllThreads : a \in HeldBy(t) /\ b \in Requests(t)

\* the pairs of mutexes the two harnesses nest, outer one first
nested_pairs ==
    {<<"instructions_per_sec", "utilization">>,
     <<"warning_events", "critical_events">>,
     <<"avg_temp", "temp_readings">>}

\* C39: the CPU and the thermal harness do not deadlock: no set of threads
\* (timer, workers or monitor, joining main thread) waits in a circle, a
\* second mutex is only ever taken in one fixed order, and no thread asks
\* for a mutex while it holds the running flag's.
C39_NoDeadlock ==
    harness \in {"cpu_stress", "thermal_monitor"}
        => /\ \A S \in SUBSET AllThreads : ~Deadlocked(S)
           /\ \A a, b \in Locks :
                  Nested(a, b) => <<a, b>> \in nested_pairs /\ <<b, a>> \notin nested_pairs
           /\ \A t \in AllThreads : "running" \in HeldBy(t) => Requests(t) = {}

C39_Witness ==
    /\ harness = "cpu_stress"
    /\ thread[1] = "lock_util"
    /\ thread[2] = "flush"
    /\ thread[timer_thread] = "flag_held"

C39_WitnessThermal ==
    /\ harness = "thermal_monitor"
    /\ main_at = "stopping"
    /\ thread[monitor_thread] = "warn_held"
    /\ Requests(monitor_thread) = {"critical_events"}

\* ------------------------------------------------- the harnesses under a clock
\* The runs above leave time out. Here `now` counts the milliseconds since
\* execute was called, in steps of half a second, and the cpu workers count
\* their instructions.

\* the longest run on the clock
MaxNow == 2000
\* most workload chunks one cpu worker runs
MaxChunks == 2

\* Duration::as_millis, Duration::as_secs of a number of milliseconds, and
\* Duration / n
as_millis(d) == d.secs * 1000 + d.millis
as_secs(millis) == millis \div 1000
Duration_div(d, n) == Duration_new(0, as_millis(d) \div n)

\* config.duration of the timed runs: `--duration 500ms` and `--duration 2s`
TimedDurations == {Duration_new(0, 500), Duration_from_secs(2)}

\* let test_duration = config.duration (cpu, thermal);
\* let test_duration = config.duration / 4 (test_multithreaded_access)
test_duration ==
    IF harness = "memory_validation" THEN Duration_div(config_duration, 4)
    ELSE config_duration

\* what one pass of a worker's workload adds to local_instructions: the
\* primes below 10000 for workload type 0, 1000 for the other types
chunk_instructions(id) == IF id % 6 = 0 THEN 1229 ELSE 1000

quiet_vars == <<suite_vars, run_vars, hist_vars, score_vars, top_vars, cfg_vars, fs_vars>>

TimedInit ==
    /\ HarnessThreadsInit
    /\ duration_str = <<>>
    /\ parse_result = None
    /\ command = "none"
    /\ config_duration \in TimedDurations
    /\ size = 0
    /\ ClockIdle
    /\ HarnessRestIdle

\* half a second passes
tick ==
    /\ main_at # "returned"
    /\ now + 500 <= MaxNow
    /\ now' = now + 500
    /\ UNCHANGED <<quiet_vars, harness_vars, size, started, local_instructions,
                   instructions_per_sec, counted, last_flush, min_gap, cleared_at>>

\* the thread::spawn calls; the timer's sleep begins, a cpu worker's closure
\* is about to take its start time
timed_spawn_threads ==
    /\ main_at = "spawn"
    /\ thread' = [t \in ThreadIds |->
                      IF t = timer_thread THEN "sleeping"
                      ELSE IF t > thread_count THEN "absent"
                      ELSE IF harness = "cpu_stress" THEN "start" ELSE "check"]
    /\ started' = [started EXCEPT ![timer_thread] = Some(now)]
    /\ main_at' = "join"
    /\ UNCHANGED <<quiet_vars, harness, thread_count, joined, running, temp, owner,
                   writes, final_metrics, live_at_read, size, now, local_instructions,
                   instructions_per_sec, counted, last_flush, min_gap, cleared_at>>

\* thread::sleep(test_duration) returns no earlier than asked; then the
\* timer asks for the flag
timed_timer_wakes ==
    /\ thread[timer_thread] = "sleeping"
    /\ now - started[timer_thread][1] >= as_millis(test_duration)
    /\ timer_lock_running

\* *running = false, at the time cleared_at
timed_timer_fires ==
    /\ thread[timer_thread] = "flag_held"
    /\ running' = FALSE
    /\ cleared_at' = Some(now)
    /\ owner' = [owner EXCEPT !["running"] = NoOwner]
    /\ thread' = [thread EXCEPT ![timer_thread] = "done"]
    /\ UNCHANGED <<quiet_vars, harness, thread_count, main_at, joined, temp, writes,
                   final_metrics, live_at_read, size, now, started, local_instructions,
                   instructions_per_sec, counted, last_flush, min_gap>>

\* let mut local_instructions = 0u64; let start = Instant::now()
timed_worker_start(w) ==
    /\ thread[w] = "start"
    /\ started' = [started EXCEPT ![w] = Some(now)]
    /\ local_instructions' = [local_instructions EXCEPT ![w] = 0]
    /\ thread' = [thread EXCEPT ![w] = "check"]
    /\ UNCHANGED <<quiet_vars, harness, thread_count, main_at, joined, running, temp,
                   owner, writes, final_metrics, live_at_read, size, now,
                   instructions_per_sec, counted, last_flush, min_gap, cleared_at>>

\* one pass of the match on workload_type, then
\* `if start.elapsed().as_secs() >= 1`
timed_worker_work(w) ==
    /\ harness = "cpu_stress"
    /\ thread[w] = "work"
    /\ counted[w] < MaxChunks * 1000
    /\ local_instructions' =
           [local_instructions EXCEPT ![w] = @ + chunk_instructions(w - 1)]
    /\ counted' = [counted EXCEPT ![w] = @ + chunk_instructions(w - 1)]
    /\ thread' = [thread EXCEPT ![w] =
                      IF as_secs(now - started[w][1]) >= 1 THEN "flush" ELSE "check"]
    /\ UNCHANGED <<quiet_vars, harness, thread_count, main_at, joined, running, temp,
                   owner, writes, final_metrics, live_at_read, size, now, started,
                   instructions_per_sec, last_flush, min_gap, cleared_at>>

\* let mut instr = instructions_per_sec.lock().unwrap();
\* *instr += local_instructions; local_instructions = 0
\* last_flush and min_gap record when the worker flushed and the shortest
\* time between two flushes of one worker
timed_worker_flush(w) ==
    /\ thread[w] = "flush"
    /\ owner["instructions_per_sec"] = NoOwner
    /\ owner' = [owner EXCEPT !["instructions_per_sec"] = w]
    /\ instructions_per_sec' = instructions_per_sec + local_instructions[w]
    /\ local_instructions' = [local_instructions EXCEPT ![w] = 0]
    /\ last_flush' = [last_flush EXCEPT ![w] = Some(now)]
    /\ min_gap' = IF last_flush[w] = None THEN min_gap
                  ELSE IF min_gap = None THEN Some(now - last_flush[w][1])
                  ELSE Some(Min(min_gap[1], now - last_flush[w][1]))
    /\ thread' = [thread EXCEPT ![w] = "lock_util"]
    /\ UNCHANGED <<quiet_vars, harness, thread_count, main_at, joined, running, temp,
                   writes, final_metrics, live_at_read, size, now, started, counted,
                   cleared_at>>

\* let final_instructions = *instructions_per_sec.lock().unwrap(), after
\* the joins
timed_read_final_metrics ==
    /\ main_at = "read"
    /\ \A l \in final_locks : owner[l] = NoOwner
    /\ final_metrics' = Some(IF harness = "cpu_stress" THEN instructions_per_sec
                             ELSE writes)
    /\ live_at_read' = Alive
    /\ main_at' = "score"
    /\ UNCHANGED <<quiet_vars, work_vars, harness, thread_count, joined, running,
                   thread, temp, owner, writes>>

TimedNext ==
    \/ harness_interrupt
    \/ tick
    \/ timed_spawn_threads
    \/ timed_timer_wakes
    \/ timed_timer_fires
    \/ \E w \in 1..thread_count : timed_worker_start(w)
    \/ \E w \in 1..thread_count : worker_check_running(w)
    \/ \E w \in 1..thread_count : timed_worker_work(w)
    \/ \E w \in 1..thread_count : timed_worker_flush(w)
    \/ \E w \in 1..thread_count : worker_lock_utilization(w)
    \/ \E w \in 1..thread_count : worker_end_flush(w)
    \/ \E w \in 1..thread_count : worker_lock_memory(w)
    \/ \E w \in 1..thread_count : worker_unlock_memory(w)
    \/ \E t \in SensorTemps : monitor_check_running(t)
    \/ monitor_lock_max
    \/ monitor_end_max
    \/ monitor_lock_min
    \/ monitor_end_min
    \/ monitor_lock_warning
    \/ monitor_below_warning
    \/ monitor_lock_critical
    \/ monitor_end_warning
    \/ monitor_lock_avg
    \/ monitor_lock_readings
    \/ monitor_end_avg
    \/ join_next
    \/ stop_lock_running
    \/ stop_monitor
    \/ timed_read_final_metrics
    \/ harness_return

SpecTimed == TimedInit /\ [][TimedNext]_vars

\* ------------------------------------------------ claims about the timed runs
\* C34: a cpu worker flushes its local count into the shared metrics about
\* once per second for the whole run, not once per workload chunk: between
\* two flushes of one worker at least a second passes.
C34_FlushesASecondApart == min_gap # None => min_gap[1] >= 1000

\* what the code has: `start` is taken once, so a worker does not flush
\* during its first second, and flushes after every chunk from then on
C34_NoFlushInFirstSecond ==
    \A w \in 1..thread_count :
        last_flush[w] # None => last_flush[w][1] - started[w][1] >= 1000

\* C35: in every harness the timer clears the running flag only after the
\* whole of config.duration has passed since the harness started, whatever
\* the scheduler's interrupt flag is, the memory unit's multi-threaded stage
\* included.
C35_TimerSleepsFullDuration ==
    cleared_at # None => cleared_at[1] >= as_millis(config_duration)

\* what the code has: the cpu and the thermal timer sleep config.duration,
\* the memory unit's timer a quarter of it
C35_TimerSleepsTestDuration ==
    /\ cleared_at # None =>
           cleared_at[1] - started[timer_thread][1] >= as_millis(test_duration)
    /\ harness # "memory_validation" => test_duration = config_duration
    /\ harness = "memory_validation" =>
           as_millis(test_duration) * 4 = as_millis(config_duration)

\* the sum of f[1] .. f[n]
RECURSIVE SumTo(_, _)
SumTo(f, n) == IF n = 0 THEN 0 ELSE f[n] + SumTo(f, n - 1)

\* C40: when the cpu unit's execute returns, the instruction total it read
\* is the sum of everything its workers counted: each local count was added
\* to the shared counter once and none is left behind when a loop ends, for
\* every duration, those under a second included.
C40_TotalIsSumOfCounts ==
    harness = "cpu_stress" /\ main_at = "returned"
        => final_metrics = Some(SumTo(counted, thread_count))

\* what the code has: the total lacks what the workers still held when
\* their loops ended, and a worker holds something then only if it never
\* flushed
C40_TotalLacksUnflushedCounts ==
    harness = "cpu_stress" /\ main_at = "returned"
        => /\ final_metrics = Some(SumTo(counted, thread_count)
                                       - SumTo(local_instructions, thread_count))
           /\ \A w \in 1..thread_count :
                  local_instructions[w] > 0 => last_flush[w] = None

====
